---- MODULE Spec2Model ----
(***************************************************************************)
(* Model of vin-agent-service: the inventory Sync Job (src/scraper/index.js *)
(* and its iframe-polling revision in src/unnamed/part_000), the sync       *)
(* trigger and the reply endpoint of src/server.js, and the row parser.     *)
(*                                                                          *)
(* JavaScript values are encoded as follows.  A string is a sequence of     *)
(* one-character strings.  A value that may be null/undefined/NaN is an     *)
(* option: None (the empty sequence) or Some(v) (the one-element sequence). *)
(* An object literal is a function from key names to values.                *)
(***************************************************************************)
EXTENDS Integers, Sequences, FiniteSets, TLC

\* ------------------------------------------------------------------------
\* Bounds of the model
\* ------------------------------------------------------------------------

\* longest year/make cell text enumerated for the row parser
MaxCellLen == 5

\* ------------------------------------------------------------------------
\* State
\* ------------------------------------------------------------------------

\* the row parser on its own
VARIABLES
    pin,    \* the row handed to the row parser
    pout,   \* its result (None: not parsed yet, or the row was dropped)
    pdone   \* whether the parser has run

parseVars == <<pin, pout, pdone>>

\* the Sync Job, its callers and the store
VARIABLES
    credsSet,        \* VIN_USERNAME and VIN_PASSWORD are both set
    variant,         \* "index": src/scraper/index.js; "iframe": the polling revision
    caller,          \* "none", "http" (POST /api/inventory/sync) or "cli"
    pc,              \* position of the job and of its caller
    browser,         \* "none", "open" or "closed"
    attempt,         \* let attempt
    inventoryFrame,  \* let inventoryFrame: None or Some(frame)
    frames,          \* const frames of the polling attempt under way (else empty)
    qualAt,          \* first attempt whose frames held a qualifying table (0: none yet)
    trs,             \* the tr elements read by the extraction
    vehicles,        \* const vehicles
    idx,             \* position of the upsert loop in vehicles (0: loop not entered)
    insertedCount, updatedCount, errorCount,
    outcomes,        \* what each upsert of this run did: "inserted", "updated", "error"
    store,           \* the inventory table
    store0,          \* the inventory table when the run started
    clock,           \* NOW() of the store
    pending,         \* completion of the try block awaiting the finally block
    outcome,         \* how the job completed, as its caller sees it
    syncResp,        \* response of POST /api/inventory/sync
    exitCode,        \* process.exit code of the direct run (-1: not exited)
    loginInputs,     \* the input elements of the login document (empty: not loaded)
    usernameField,   \* const usernameField: position in loginInputs, 0 for null
    passwordField,   \* const passwordField: position in loginInputs, 0 for null
    scanLog          \* what the for loop of the attempt under way did with each frame it reached

syncVars ==
    <<credsSet, variant, caller, pc, browser, attempt, inventoryFrame, frames,
      qualAt, trs, vehicles, idx, insertedCount, updatedCount, errorCount,
      outcomes, store, store0, clock, pending, outcome, syncResp, exitCode,
      loginInputs, usernameField, passwordField, scanLog>>

envVars == <<credsSet, variant, store0>>

loginVars == <<loginInputs, usernameField, passwordField>>

pollVars == <<attempt, inventoryFrame, frames, qualAt, scanLog>>

loopVars == <<trs, vehicles, idx, insertedCount, updatedCount, errorCount, outcomes, store, clock>>

endVars == <<outcome, syncResp, exitCode>>

\* one request to POST /agent/reply
VARIABLES
    internalToken,  \* process.env.INTERNAL_TOKEN
    apiKeySet,      \* process.env.OPENAI_API_KEY is set
    reqAuth,        \* the request's Authorization header
    reqMessages,    \* req.body.messages
    rpc,            \* "idle", "handler", "calling" or "done"
    upstreamCalls,  \* calls of openai.chat.completions.create
    sentPrompt,     \* the conversation history of the prompt sent upstream
    caught,         \* err.message in the catch block of the handler (None: nothing caught)
    replyResp       \* the response of the request

replyVars ==
    <<internalToken, apiKeySet, reqAuth, reqMessages, rpc, upstreamCalls,
      sentPrompt, caught, replyResp>>

reqVars == <<internalToken, apiKeySet, reqAuth, reqMessages>>

\* the inventory endpoints of the service and the sync runs writing the table
VARIABLES
    tableExists,  \* the inventory table has been created
    inventory,    \* the inventory table: stock_number -> row
    inventory0,   \* the inventory table at the start
    dbNow,         \* CURRENT_TIMESTAMP of the store
    searchQ,      \* req.query.q of the search request (None: no q)
    searchResp,   \* response of GET /api/inventory/search
    statsResp,    \* response of GET /api/inventory/stats
    runs,         \* the upsert loops of the triggered sync runs
    sampleIdx,    \* position of the test-data loop (0: not called)
    testResp,     \* response of GET /api/inventory/test-data
    setupResp     \* response of GET /api/setup/create-table

svcVars ==
    <<tableExists, inventory, inventory0, dbNow, searchQ, searchResp, statsResp,
      runs, sampleIdx, testResp, setupResp>>

vars == <<parseVars, syncVars, replyVars, svcVars>>

\* ------------------------------------------------------------------------
\* Options
\* ------------------------------------------------------------------------

None == <<>>

Some(v) == <<v>>

IsSome(o) == o # <<>>

Val(o) == o[1]

\* ------------------------------------------------------------------------
\* String primitives of the JavaScript runtime used by the row parser
\* ------------------------------------------------------------------------

\* white space as matched by \s and removed by String.prototype.trim
WS == {" ", "\t", "\n"}

DecDigits == {"0", "1", "2", "3", "4", "5", "6", "7", "8", "9"}

HexDigits == DecDigits \cup {"a", "b", "c", "d", "e", "f", "A", "B", "C", "D", "E", "F"}

DigitVal(c) ==
    CASE c = "0" -> 0 [] c = "1" -> 1 [] c = "2" -> 2 [] c = "3" -> 3
      [] c = "4" -> 4 [] c = "5" -> 5 [] c = "6" -> 6 [] c = "7" -> 7
      [] c = "8" -> 8 [] c = "9" -> 9
      [] c \in {"a", "A"} -> 10 [] c \in {"b", "B"} -> 11
      [] c \in {"c", "C"} -> 12 [] c \in {"d", "D"} -> 13
      [] c \in {"e", "E"} -> 14 [] c \in {"f", "F"} -> 15

RECURSIVE TrimStart(_)
TrimStart(s) ==
    IF s = <<>> THEN s
    ELSE IF Head(s) \in WS THEN TrimStart(Tail(s)) ELSE s

RECURSIVE TrimEnd(_)
TrimEnd(s) ==
    IF s = <<>> THEN s
    ELSE IF s[Len(s)] \in WS THEN TrimEnd(SubSeq(s, 1, Len(s) - 1)) ELSE s

\* String.prototype.trim
Trim(s) == TrimEnd(TrimStart(s))

\* s.split(/\s+/): the pieces between maximal runs of white space; a leading
\* or trailing run yields an empty first or last piece
RECURSIVE SplitFrom(_, _)
SplitFrom(s, cur) ==
    IF s = <<>> THEN <<cur>>
    ELSE IF Head(s) \in WS THEN <<cur>> \o SplitFrom(TrimStart(s), <<>>)
    ELSE SplitFrom(Tail(s), Append(cur, Head(s)))

SplitWS(s) == SplitFrom(s, <<>>)

\* parts.join(' ')
RECURSIVE JoinSpace(_)
JoinSpace(parts) ==
    IF parts = <<>> THEN <<>>
    ELSE IF Len(parts) = 1 THEN parts[1]
    ELSE parts[1] \o <<" ">> \o JoinSpace(Tail(parts))

\* the longest prefix of s made of digits of the radix
RECURSIVE DigitPrefix(_, _)
DigitPrefix(s, digits) ==
    IF s = <<>> \/ Head(s) \notin digits THEN <<>>
    ELSE <<Head(s)>> \o DigitPrefix(Tail(s), digits)

RECURSIVE DigitsValue(_, _, _)
DigitsValue(s, radix, acc) ==
    IF s = <<>> THEN acc
    ELSE DigitsValue(Tail(s), radix, acc * radix + DigitVal(Head(s)))

\* parseInt(s) with no radix argument: leading white space skipped, an
\* optional sign, an optional 0x/0X prefix selecting radix 16, then the
\* longest run of digits; None stands for NaN
ParseInt(s) ==
    LET t    == TrimStart(s)
        neg  == t # <<>> /\ Head(t) = "-"
        u    == IF t # <<>> /\ Head(t) \in {"-", "+"} THEN Tail(t) ELSE t
        hex  == Len(u) >= 2 /\ u[1] = "0" /\ u[2] \in {"x", "X"}
        body == IF hex THEN Tail(Tail(u)) ELSE u
        ds   == DigitPrefix(body, IF hex THEN HexDigits ELSE DecDigits)
        n    == DigitsValue(ds, IF hex THEN 16 ELSE 10, 0)
    IN  IF ds = <<>> THEN None ELSE Some(IF neg THEN 0 - n ELSE n)

\* ------------------------------------------------------------------------
\* Row parsing (the function evaluated in the page by scrapeVINInventory)
\* ------------------------------------------------------------------------

\* year = parseInt(yearStr); if (year && !isNaN(year)) { if (year < 100)
\* year = 2000 + year } else year = null
YearOf(yearStr) ==
    LET year == ParseInt(yearStr)
    IN  IF IsSome(year) /\ Val(year) # 0
        THEN IF Val(year) < 100 THEN Some(2000 + Val(year)) ELSE year
        ELSE None

\* mutant of ParseYearMake: the make joined from every token (slice(0))
ParseYearMakeKeepsYear(carfaxText) ==
    IF carfaxText # <<>> /\ Len(SplitWS(carfaxText)) >= 2
    THEN LET parts == SplitWS(carfaxText)
         IN  [year |-> YearOf(parts[1]), make |-> JoinSpace(parts)]
    ELSE [year |-> None, make |-> <<>>]

\* the year/make split of the "CARFAX VB Yr Make" cell
ParseYearMake(carfaxText) ==
    IF carfaxText # <<>> /\ Len(SplitWS(carfaxText)) >= 2
    THEN LET parts == SplitWS(carfaxText)
         IN  [year |-> YearOf(parts[1]), make |-> JoinSpace(Tail(parts))]
    ELSE [year |-> None, make |-> <<>>]

\* mutant of ParseRow: the model read from the cell of the trim
ParseRowModelFromTrimCell(cells) ==
    IF Len(cells) < 8 THEN None
    ELSE LET ym  == ParseYearMake(Trim(cells[5]))
             vin == Trim(cells[8])
         IN  Some([stock_number |-> Trim(cells[2]),
                   year         |-> ym.year,
                   make         |-> ym.make,
                   model        |-> Trim(cells[7]),
                   trim         |-> Trim(cells[7]),
                   vin          |-> IF vin = <<>> THEN None ELSE Some(vin),
                   status       |-> "available"])

\* the callback of rows.map: null (None) for a row of fewer than 8 cells,
\* else the record read by fixed position
ParseRow(cells) ==
    IF Len(cells) < 8 THEN None
    ELSE LET ym  == ParseYearMake(Trim(cells[5]))
             vin == Trim(cells[8])
         IN  Some([stock_number |-> Trim(cells[2]),
                   year         |-> ym.year,
                   make         |-> ym.make,
                   model        |-> Trim(cells[6]),
                   trim         |-> Trim(cells[7]),
                   vin          |-> IF vin = <<>> THEN None ELSE Some(vin),
                   status       |-> "available"])

\* mutant of KeepParsed: .filter(v => v), records without stock number kept
RECURSIVE KeepParsedNonNull(_)
KeepParsedNonNull(parsed) ==
    IF parsed = <<>> THEN <<>>
    ELSE LET v == Head(parsed)
         IN  IF IsSome(v)
             THEN <<Val(v)>> \o KeepParsedNonNull(Tail(parsed))
             ELSE KeepParsedNonNull(Tail(parsed))

\* .filter(v => v && v.stock_number)
RECURSIVE KeepParsed(_)
KeepParsed(parsed) ==
    IF parsed = <<>> THEN <<>>
    ELSE LET v == Head(parsed)
         IN  IF IsSome(v) /\ Val(v).stock_number # <<>>
             THEN <<Val(v)>> \o KeepParsed(Tail(parsed))
             ELSE KeepParsed(Tail(parsed))

\* Array.from(document.querySelectorAll('table tr')).slice(1).map(..).filter(..)
ParseRows(trList) ==
    LET rows == IF trList = <<>> THEN <<>> ELSE Tail(trList)
    IN  KeepParsed([i \in 1..Len(rows) |-> ParseRow(rows[i])])

\* ------------------------------------------------------------------------
\* Cell texts the page may hold
\* ------------------------------------------------------------------------

CellChars == {"0", "1", "a", "-", " "}

\* every year/make cell text of at most MaxCellLen characters
CarfaxCells == UNION {[1..k -> CellChars] : k \in 0..MaxCellLen}

StockA == <<"M", "1">>

StockB == <<"M", "2">>

ModelA == <<"B", "l", "a", "z", "e", "r">>

ModelB == <<"S", "i", "l", "v", " ", "M", "D">>

TrimA == <<"L", "T">>

VinA == <<"H", "T", "K", "1">>

\* a data row as the page renders it: cell texts carry surrounding white space
DataRow(stock, carfax, model, vin) ==
    <<<<>>, <<" ">> \o stock \o <<"\n">>, <<>>, <<>>, carfax, model, TrimA, vin>>

\* the row of the column-mapping comment: M37385, 24 Chevrolet, Silverado MD,
\* Work Truck, HTKJPVM4RH178232
ExampleRow ==
    <<<<>>,
      <<"M", "3", "7", "3", "8", "5">>,
      <<>>,
      <<>>,
      <<"2", "4", " ", "C", "h", "e", "v", "r", "o", "l", "e", "t">>,
      <<"S", "i", "l", "v", "e", "r", "a", "d", "o", " ", "M", "D">>,
      <<"W", "o", "r", "k", " ", "T", "r", "u", "c", "k">>,
      <<"H", "T", "K", "J", "P", "V", "M", "4", "R", "H", "1", "7", "8", "2", "3", "2">>>>

\* a row of nine cells, every cell with a text of its own, the VIN cell blank
NineCellRow ==
    <<<<"p">>, <<"\t">> \o StockB, <<"d">>, <<"t">>, <<" ", "2", "0", "0", "7", " ", "G", "M", "C">>,
      ModelB \o <<" ">>, <<"\n">> \o TrimA, <<" ">>, <<"9">>>>

ParserInputs ==
    {DataRow(StockA, c, ModelA, VinA) : c \in CarfaxCells}
        \cup {ExampleRow, NineCellRow}

ParseInit ==
    /\ pin \in ParserInputs
    /\ pout = None
    /\ pdone = FALSE

ParseStep ==
    /\ ~pdone
    /\ pout' = ParseRow(pin)
    /\ pdone' = TRUE
    /\ UNCHANGED <<pin, syncVars, replyVars, svcVars>>

\* ------------------------------------------------------------------------
\* The inventory table of the store and the upsert statement
\* ------------------------------------------------------------------------

\* column widths and the integer range of CREATE TABLE inventory
StockNumberWidth == 50

VinWidth == 17

TextWidth == 100

MaxInteger == 2147483647

\* the statement is rejected by the store: a value does not fit its column
ConstraintViolation(v) ==
    \/ Len(v.stock_number) > StockNumberWidth
    \/ IsSome(v.vin) /\ Len(Val(v.vin)) > VinWidth
    \/ Len(v.make) > TextWidth
    \/ Len(v.model) > TextWidth
    \/ Len(v.trim) > TextWidth
    \/ IsSome(v.year) /\ (Val(v.year) > MaxInteger \/ Val(v.year) < 0 - MaxInteger - 1)

\* mutant of ReturnsInserted: every statement reports an insert
ReturnsInsertedAlways(st, v) == TRUE

\* RETURNING (xmax = 0) AS inserted: true for a fresh row, false when the
\* conflict branch updated an existing one
ReturnsInserted(st, v) == v.stock_number \notin DOMAIN st

\* mutant of Upsert: ON CONFLICT (stock_number) DO NOTHING
UpsertDoNothing(st, v, now) ==
    IF v.stock_number \in DOMAIN st THEN st
    ELSE (v.stock_number :>
            [stock_number |-> v.stock_number, year |-> v.year, make |-> v.make,
             model |-> v.model, trim |-> v.trim, vin |-> v.vin,
             status |-> v.status, created_at |-> now, updated_at |-> now,
             last_scraped_at |-> now]) @@ st

\* mutant of Upsert: vin = COALESCE(EXCLUDED.vin, inventory.vin)
UpsertMergingVin(st, v, now) ==
    IF v.stock_number \in DOMAIN st
    THEN [st EXCEPT ![v.stock_number] =
            [@ EXCEPT !.year = v.year, !.make = v.make, !.model = v.model,
                      !.trim = v.trim,
                      !.vin = IF v.vin = None THEN @ ELSE v.vin,
                      !.status = v.status,
                      !.updated_at = now, !.last_scraped_at = now]]
    ELSE (v.stock_number :>
            [stock_number |-> v.stock_number, year |-> v.year, make |-> v.make,
             model |-> v.model, trim |-> v.trim, vin |-> v.vin,
             status |-> v.status, created_at |-> now, updated_at |-> now,
             last_scraped_at |-> now]) @@ st

\* mutant of Upsert: the table emptied ahead of the insert
UpsertTruncating(st, v, now) ==
    v.stock_number :>
        [stock_number |-> v.stock_number, year |-> v.year, make |-> v.make,
         model |-> v.model, trim |-> v.trim, vin |-> v.vin,
         status |-> v.status, created_at |-> now, updated_at |-> now,
         last_scraped_at |-> now]

\* mutant of Upsert: the conflict branch leaves the stored status
UpsertKeepingStatus(st, v, now) ==
    IF v.stock_number \in DOMAIN st
    THEN [st EXCEPT ![v.stock_number] =
            [@ EXCEPT !.year = v.year, !.make = v.make, !.model = v.model,
                      !.trim = v.trim, !.vin = v.vin,
                      !.updated_at = now, !.last_scraped_at = now]]
    ELSE (v.stock_number :>
            [stock_number |-> v.stock_number, year |-> v.year, make |-> v.make,
             model |-> v.model, trim |-> v.trim, vin |-> v.vin,
             status |-> v.status, created_at |-> now, updated_at |-> now,
             last_scraped_at |-> now]) @@ st

\* INSERT ... ON CONFLICT (stock_number) DO UPDATE SET ...: the table after
\* the statement, a function from stock_number to the row
Upsert(st, v, now) ==
    IF v.stock_number \in DOMAIN st
    THEN [st EXCEPT ![v.stock_number] =
            [@ EXCEPT !.year = v.year, !.make = v.make, !.model = v.model,
                      !.trim = v.trim, !.vin = v.vin, !.status = v.status,
                      !.updated_at = now, !.last_scraped_at = now]]
    ELSE (v.stock_number :>
            [stock_number |-> v.stock_number, year |-> v.year, make |-> v.make,
             model |-> v.model, trim |-> v.trim, vin |-> v.vin,
             status |-> v.status, created_at |-> now, updated_at |-> now,
             last_scraped_at |-> now]) @@ st

\* mutant of NextVehicle: a rejected statement ends the loop
NextVehicleAborting(i, kind, n) == IF kind = "error" THEN n + 1 ELSE i + 1

\* for (const vehicle of vehicles): the index examined after record i of n,
\* whatever its upsert did
NextVehicle(i, kind, n) == i + 1

\* the result object returned when parsing yields no record
ZeroRowsResult ==
    [success |-> FALSE, error |-> "No vehicles found in table",
     vehiclesFound |-> 0, inserted |-> 0, updated |-> 0, errors |-> 0]

\* mutant of SummaryResult: rejected statements are left out of the report
SummaryResultWithoutErrors(found, ins, upd, errs) ==
    [success |-> TRUE, vehiclesFound |-> found, inserted |-> ins,
     updated |-> upd, errors |-> 0]

\* the result object returned after the upsert loop
SummaryResult(found, ins, upd, errs) ==
    [success |-> TRUE, vehiclesFound |-> found, inserted |-> ins,
     updated |-> upd, errors |-> errs]

\* mutant of SyncSuccessBody: result spread first, the literal keys last
SyncSuccessBodyLiteralLast(result) ==
    [success |-> TRUE, message |-> "Inventory synced successfully"] @@ result

\* res.json({ success: true, message: ..., ...result }): the keys of result
\* are spread last and override the literal ones
SyncSuccessBody(result) ==
    result @@ [success |-> TRUE, message |-> "Inventory synced successfully"]

\* res.status(500).json({ success: false, error: error.message })
SyncErrorBody(message) == [success |-> FALSE, error |-> message]

\* mutant of AfterFinally: the browser is left as it is
AfterFinallyNoClose(b) == b

\* finally { if (browser) await browser.close() }
AfterFinally(b) == IF b = "open" THEN "closed" ELSE b

\* ------------------------------------------------------------------------
\* Frame discovery (the polling revision of scrapeVINInventory)
\* ------------------------------------------------------------------------

\* const maxAttempts = 15
maxAttempts == 15

\* if (cellCount > 50)
DensityThreshold == 50

\* most frames page.frames() returns in one attempt
MaxFrames == 2

\* s.includes(pat) on strings given as sequences of lexemes
Includes(s, pat) ==
    \E i \in 1..(Len(s) - Len(pat) + 1) : SubSeq(s, i, i + Len(pat) - 1) = pat

\* 'signin.coxautoinc.com'
SigninHost == <<"signin", ".", "coxautoinc", ".", "com">>

UrlSignin == <<"https://">> \o SigninHost \o <<"/", "login">>

UrlApp == <<"https://", "vinsolutions", ".", "app", ".", "coxautoinc", ".", "com", "/", "vinconnect">>

\* what a frame shows when probed: probe is "error" (frame.$ or
\* frame.evaluate rejects), "none" (no table) or "table" with its td count
FrameKinds ==
    {[url |-> UrlSignin, probe |-> "table", cells |-> DensityThreshold + 1],
     [url |-> UrlApp, probe |-> "error", cells |-> 0],
     [url |-> UrlApp, probe |-> "none", cells |-> 0],
     [url |-> UrlApp, probe |-> "table", cells |-> DensityThreshold],
     [url |-> UrlApp, probe |-> "table", cells |-> DensityThreshold + 1]}

\* page.frames(): the main frame and the embedded ones, in enumeration order
FrameLists == UNION {[1..k -> FrameKinds] : k \in 1..MaxFrames}

\* mutant of IsSigninFrame: no frame is skipped
IsSigninFrameNever(frameUrl) == FALSE

\* frameUrl.includes('signin.coxautoinc.com')
IsSigninFrame(frameUrl) == Includes(frameUrl, SigninHost)

\* mutant of Dense: the threshold itself is enough
DenseAtLeast(cellCount) == cellCount >= DensityThreshold

\* if (cellCount > 50)
Dense(cellCount) == cellCount > DensityThreshold

\* the body of the for loop on one frame: "skipped" (continue), "error" (the
\* catch block), "none" (no table), "small" or "accepted"
Inspect(frame) ==
    IF IsSigninFrame(frame.url) THEN "skipped"
    ELSE IF frame.probe = "error" THEN "error"
    ELSE IF frame.probe = "none" THEN "none"
    ELSE IF Dense(frame.cells) THEN "accepted"
    ELSE "small"

\* mutant of ScanEnds: the catch block leaves the for loop as well
ScanEndsOnError(result) == result \in {"accepted", "error"}

\* inventoryFrame = frame; break
ScanEnds(result) == result = "accepted"

\* for (const frame of frames) { ... }: the frames reached, in order, each
\* with what the loop body did
RECURSIVE ScanFrom(_, _)
ScanFrom(frs, i) ==
    IF i > Len(frs) THEN <<>>
    ELSE LET step == [frame |-> i, result |-> Inspect(frs[i])]
         IN  IF ScanEnds(step.result) THEN <<step>>
             ELSE <<step>> \o ScanFrom(frs, i + 1)

\* the frame assigned to inventoryFrame by the scan, None when there is none
ScanFrames(frs) ==
    LET log == ScanFrom(frs, 1)
    IN  IF \E k \in 1..Len(log) : log[k].result = "accepted"
        THEN Some(frs[log[CHOOSE k \in 1..Len(log) : log[k].result = "accepted"].frame])
        ELSE None

\* mutant of ContinuePolling: one attempt more
ContinuePollingOneMore(frame, a) == frame = None /\ a <= maxAttempts

\* while (!inventoryFrame && attempt < maxAttempts)
ContinuePolling(frame, a) == frame = None /\ a < maxAttempts

\* ------------------------------------------------------------------------
\* Pages and stores the job may meet
\* ------------------------------------------------------------------------

\* most data rows (after the header row) of the inventory table
MaxRows == 2

Carfax24 == <<"2", "4", " ", "C", "h", "e", "v", "y">>

Carfax2025 == <<"2", "0", "2", "5", " ", " ", "G", "M", "C">>

\* an 18-character VIN cell: one more than the vin column holds
VinLong == [i \in 1..(VinWidth + 1) |-> "X"]

HeaderRow == <<<<"S", "t", "o", "c", "k">>>>

PageRows ==
    {DataRow(StockA, Carfax24, ModelA, VinA),
     DataRow(StockA, Carfax2025, ModelB, <<>>),
     DataRow(StockB, Carfax24, ModelB, VinA),
     DataRow(StockB, Carfax2025, ModelA, VinLong),
     DataRow(<<" ">>, Carfax24, ModelA, VinA),
     <<<<>>, StockA, <<>>>>}

\* the tr elements of the page: the header row, then up to MaxRows rows
Tables == {<<HeaderRow>> \o t : t \in UNION {[1..k -> PageRows] : k \in 0..MaxRows}}

EmptyStore == <<>>

\* a row left by an earlier run and since marked sold
SoldStore ==
    StockA :> [stock_number |-> StockA, year |-> Some(2019), make |-> <<"G", "M", "C">>,
               model |-> ModelB, trim |-> TrimA, vin |-> Some(VinA),
               status |-> "sold", created_at |-> 0, updated_at |-> 0,
               last_scraped_at |-> 0]

InitialStores == {EmptyStore, SoldStore}

\* ------------------------------------------------------------------------
\* The login document and the selectors of the login stage
\* ------------------------------------------------------------------------

\* an input element, by the attributes the selectors read; an attribute value
\* is a sequence of lexemes, empty when the attribute is absent
Input(n, t, i, p) == [name |-> n, type |-> t, id |-> i, placeholder |-> p]

\* input[attr="val"] (op "=") or input[attr*="val"] (op "*=")
Selector(a, o, v) == [attr |-> a, op |-> o, val |-> v]

Matches(el, sel) ==
    IF sel.op = "=" THEN el[sel.attr] = sel.val
    ELSE Includes(el[sel.attr], sel.val)

\* page.$(selector): the first matching element in document order, 0 for null
QueryFirst(inputs, sel) ==
    IF \E i \in 1..Len(inputs) : Matches(inputs[i], sel)
    THEN CHOOSE i \in 1..Len(inputs) :
             /\ Matches(inputs[i], sel)
             /\ \A j \in 1..(i - 1) : ~Matches(inputs[j], sel)
    ELSE 0

\* await page.$(a) || await page.$(b) || ...: the first lookup that is not null
RECURSIVE FirstFound(_, _, _)
FirstFound(inputs, sels, k) ==
    IF k > Len(sels) THEN 0
    ELSE IF QueryFirst(inputs, sels[k]) # 0 THEN QueryFirst(inputs, sels[k])
    ELSE FirstFound(inputs, sels, k + 1)

\* the selector list handed to waitForSelector
LoginFormSelectors ==
    <<Selector("name", "=", <<"username">>),
      Selector("type", "=", <<"email">>),
      Selector("id", "*=", <<"user">>),
      Selector("name", "=", <<"loginId">>)>>

UsernameSelectors ==
    <<Selector("name", "=", <<"username">>),
      Selector("type", "=", <<"email">>),
      Selector("name", "=", <<"loginId">>),
      Selector("id", "*=", <<"user">>),
      Selector("placeholder", "*=", <<"mail">>),
      Selector("placeholder", "*=", <<"sername">>)>>

PasswordSelectors ==
    <<Selector("name", "=", <<"password">>),
      Selector("type", "=", <<"password">>),
      Selector("placeholder", "*=", <<"assword">>)>>

\* waitForSelector resolves when an element matches a selector of its list
FormAppears(inputs) ==
    \E k \in 1..Len(LoginFormSelectors) : QueryFirst(inputs, LoginFormSelectors[k]) # 0

\* an e-mail input ahead of the username input, an unnamed password input
\* ahead of the named one
FullLoginPage ==
    <<Input(<<>>, <<"email">>, <<>>, <<"E", "mail">>),
      Input(<<"username">>, <<"text">>, <<"user", "Name">>, <<>>),
      Input(<<>>, <<"password">>, <<>>, <<"P", "assword">>),
      Input(<<"password">>, <<"password">>, <<>>, <<>>)>>

PasswordOnlyPage == <<Input(<<"password">>, <<"password">>, <<>>, <<>>)>>

\* the user input is recognisable by its placeholder alone
PlaceholderPage ==
    <<Input(<<>>, <<"text">>, <<>>, <<"E", "mail">>),
      Input(<<"password">>, <<"password">>, <<>>, <<>>)>>

UsernameOnlyPage == <<Input(<<"username">>, <<"text">>, <<>>, <<>>)>>

\* the login document 20 s after page.goto resolved
LoginPages == {FullLoginPage, PasswordOnlyPage, PlaceholderPage, UsernameOnlyPage}

\* ------------------------------------------------------------------------
\* The Sync Job (scrapeVINInventory) and its callers
\* ------------------------------------------------------------------------

ErrCredentials == "VIN_USERNAME and VIN_PASSWORD must be set in environment variables"

ErrCredentialsHttp == "VIN_USERNAME and VIN_PASSWORD environment variables not set"

ErrLaunch == "Failed to launch the browser process"

ErrNavigation == "Navigation timeout exceeded"

ErrLoginWait == "Waiting for selector input failed"

ErrLoginFields == "Could not find login fields on page"

ErrSubmit == "Could not submit login form"

ErrPage == "Execution context was destroyed"

ErrTableWait == "Waiting for selector table failed"

ErrIframe == "Could not find iframe containing inventory table after 30 seconds"

NoCompletion == [kind |-> "none", value |-> None]

Returned(result) == [kind |-> "returned", value |-> result]

Thrown(message) == [kind |-> "thrown", value |-> message]

NoResponse == [status |-> 0, body |-> None]

SyncInit ==
    /\ credsSet \in BOOLEAN
    /\ variant \in {"index", "iframe"}
    /\ store0 \in InitialStores
    /\ store = store0
    /\ caller = "none"
    /\ pc = "idle"
    /\ browser = "none"
    /\ attempt = 0
    /\ inventoryFrame = None
    /\ frames = <<>>
    /\ qualAt = 0
    /\ trs = <<>>
    /\ vehicles = <<>>
    /\ idx = 0
    /\ insertedCount = 0
    /\ updatedCount = 0
    /\ errorCount = 0
    /\ outcomes = <<>>
    /\ clock = 1
    /\ pending = NoCompletion
    /\ outcome = NoCompletion
    /\ syncResp = NoResponse
    /\ exitCode = -1
    /\ loginInputs = <<>>
    /\ usernameField = 0
    /\ passwordField = 0
    /\ scanLog = <<>>

\* throw inside the try block: the catch block rethrows, the finally block runs
Raise(message) ==
    /\ pending' = Thrown(message)
    /\ pc' = "finally"

\* POST /api/inventory/sync up to the call of the job
SyncRequest ==
    /\ pc = "idle"
    /\ caller' = "http"
    /\ IF ~credsSet
       THEN /\ syncResp' = [status |-> 500, body |-> SyncErrorBody(ErrCredentialsHttp)]
            /\ pc' = "responded"
       ELSE /\ pc' = "start"
            /\ UNCHANGED syncResp
    /\ UNCHANGED <<svcVars, parseVars, replyVars, envVars, loginVars, browser, pollVars, loopVars, pending, outcome, exitCode>>

\* node src/scraper/index.js
RunDirect ==
    /\ pc = "idle"
    /\ caller' = "cli"
    /\ pc' = "start"
    /\ UNCHANGED <<svcVars, parseVars, replyVars, envVars, loginVars, browser, pollVars, loopVars, pending, endVars>>

\* mutant of CheckCredentials: the check made once the browser is launched
CheckCredentialsLate ==
    /\ pc = "start"
    /\ browser' = "open"
    /\ IF ~credsSet
       THEN /\ outcome' = Thrown(ErrCredentials)
            /\ pc' = "exit"
       ELSE /\ pc' = "open_login"
            /\ UNCHANGED outcome
    /\ UNCHANGED <<svcVars, parseVars, replyVars, envVars, loginVars, caller, pollVars, loopVars, pending, syncResp, exitCode>>

\* the credential check ahead of the try block
CheckCredentials ==
    /\ pc = "start"
    /\ IF ~credsSet
       THEN /\ outcome' = Thrown(ErrCredentials)
            /\ pc' = "exit"
       ELSE /\ pc' = "launch"
            /\ UNCHANGED outcome
    /\ UNCHANGED <<svcVars, parseVars, replyVars, envVars, loginVars, caller, browser, pollVars, loopVars, pending, syncResp, exitCode>>

\* browser = await puppeteer.launch(...)
LaunchBrowser ==
    /\ pc = "launch"
    /\ \E ok \in BOOLEAN :
         IF ok
         THEN /\ browser' = "open"
              /\ pc' = "open_login"
              /\ UNCHANGED pending
         ELSE /\ Raise(ErrLaunch)
              /\ UNCHANGED browser
    /\ UNCHANGED <<svcVars, parseVars, replyVars, envVars, loginVars, caller, pollVars, loopVars, endVars>>

\* browser.newPage(), setViewport, page.goto(VIN_LOGIN_URL)
OpenLoginPage ==
    /\ pc = "open_login"
    /\ \E ok \in BOOLEAN, inputs \in LoginPages :
         IF ok
         THEN /\ pc' = "login_fields"
              /\ loginInputs' = inputs
              /\ UNCHANGED pending
         ELSE /\ Raise(ErrNavigation)
              /\ UNCHANGED loginInputs
    /\ UNCHANGED <<svcVars, parseVars, replyVars, envVars, usernameField, passwordField, caller, browser,
                   pollVars, loopVars, endVars>>

\* waitForSelector on the login form (rejects after 20 s), then the username
\* and password lookups and the check of both
LocateLoginFields ==
    /\ pc = "login_fields"
    /\ IF ~FormAppears(loginInputs)
       THEN /\ Raise(ErrLoginWait)
            /\ UNCHANGED <<usernameField, passwordField>>
       ELSE /\ usernameField' = FirstFound(loginInputs, UsernameSelectors, 1)
            /\ passwordField' = FirstFound(loginInputs, PasswordSelectors, 1)
            /\ IF usernameField' = 0 \/ passwordField' = 0
               THEN Raise(ErrLoginFields)
               ELSE pc' = "type" /\ UNCHANGED pending
    /\ UNCHANGED <<svcVars, parseVars, replyVars, envVars, loginInputs, caller, browser, pollVars, loopVars, endVars>>

\* usernameField.type(...), passwordField.type(...)
EnterCredentials ==
    /\ pc = "type"
    /\ \E ok \in BOOLEAN :
         IF ok THEN pc' = "submit" /\ UNCHANGED pending
         ELSE Raise(ErrPage)
    /\ UNCHANGED <<svcVars, parseVars, replyVars, envVars, loginVars, caller, browser, pollVars, loopVars, endVars>>

\* Enter with waitForNavigation; on failure the submit button, if any
SubmitLogin ==
    /\ pc = "submit"
    /\ \E enterNavigates, submitButton, clickNavigates \in BOOLEAN :
         IF enterNavigates THEN pc' = "dashboard" /\ UNCHANGED pending
         ELSE IF ~submitButton THEN Raise(ErrSubmit)
         ELSE IF clickNavigates THEN pc' = "dashboard" /\ UNCHANGED pending
         ELSE Raise(ErrNavigation)
    /\ UNCHANGED <<svcVars, parseVars, replyVars, envVars, loginVars, caller, browser, pollVars, loopVars, endVars>>

\* page.goto(dashboard)
GotoDashboard ==
    /\ pc = "dashboard"
    /\ \E ok \in BOOLEAN :
         IF ok
         THEN /\ pc' = IF variant = "index" THEN "inventory_tab" ELSE "hash"
              /\ UNCHANGED pending
         ELSE Raise(ErrNavigation)
    /\ UNCHANGED <<svcVars, parseVars, replyVars, envVars, loginVars, caller, browser, pollVars, loopVars, endVars>>

\* the Inventory tab click: every error is caught and logged
ClickInventoryTab ==
    /\ pc = "inventory_tab"
    /\ pc' = "browse"
    /\ UNCHANGED <<svcVars, parseVars, replyVars, envVars, loginVars, caller, browser, pollVars, loopVars, pending, endVars>>

\* the Browse Inventory link, else the direct URL; an error of either is
\* caught and the direct URL is loaded once more, outside any try
BrowseInventory ==
    /\ pc = "browse"
    /\ \E reached, fallbackLoads \in BOOLEAN :
         IF reached \/ fallbackLoads THEN pc' = "wait_table" /\ UNCHANGED pending
         ELSE Raise(ErrNavigation)
    /\ UNCHANGED <<svcVars, parseVars, replyVars, envVars, loginVars, caller, browser, pollVars, loopVars, endVars>>

\* await page.waitForSelector('table', { timeout: 30000 })
WaitForTable ==
    /\ pc = "wait_table"
    /\ \E found \in BOOLEAN :
         IF found THEN pc' = "extract" /\ UNCHANGED pending
         ELSE Raise(ErrTableWait)
    /\ UNCHANGED <<svcVars, parseVars, replyVars, envVars, loginVars, caller, browser, pollVars, loopVars, endVars>>

\* the hash change and the two scrolls of the polling revision
ChangeHash ==
    /\ pc = "hash"
    /\ \E ok \in BOOLEAN :
         IF ok THEN pc' = "poll" /\ UNCHANGED pending
         ELSE Raise(ErrPage)
    /\ UNCHANGED <<svcVars, parseVars, replyVars, envVars, loginVars, caller, browser, pollVars, loopVars, endVars>>

\* a frame list holds a table the discovery accepts
HasQualifying(frs) ==
    \E i \in 1..Len(frs) :
        /\ ~Includes(frs[i].url, SigninHost)
        /\ frs[i].probe = "table"
        /\ frs[i].cells > DensityThreshold

\* one iteration of the while loop: the wait for an iframe, then the scan
PollAttempt ==
    /\ pc = "poll"
    /\ ContinuePolling(inventoryFrame, attempt)
    /\ attempt' = attempt + 1
    /\ \E iframeExists \in BOOLEAN, frs \in FrameLists :
         IF ~iframeExists
         THEN /\ frames' = <<>>
              /\ scanLog' = <<>>
              /\ UNCHANGED <<inventoryFrame, qualAt>>
         ELSE /\ frames' = frs
              /\ scanLog' = ScanFrom(frs, 1)
              /\ inventoryFrame' = ScanFrames(frs)
              /\ qualAt' = IF qualAt = 0 /\ HasQualifying(frs) THEN attempt + 1 ELSE qualAt
    /\ UNCHANGED <<svcVars, parseVars, replyVars, envVars, loginVars, caller, pc, browser, loopVars, pending, endVars>>

\* after the loop: if (!inventoryFrame) throw
PollExit ==
    /\ pc = "poll"
    /\ ~ContinuePolling(inventoryFrame, attempt)
    /\ IF inventoryFrame = None THEN Raise(ErrIframe)
       ELSE pc' = "extract" /\ UNCHANGED pending
    /\ frames' = <<>>
    /\ scanLog' = <<>>
    /\ UNCHANGED <<svcVars, parseVars, replyVars, envVars, loginVars, caller, browser, attempt, inventoryFrame,
                   qualAt, loopVars, endVars>>

\* the extraction in the page (or the frame), and the zero-rows return
ExtractVehicles ==
    /\ pc = "extract"
    /\ \E ok \in BOOLEAN, t \in Tables :
         IF ~ok
         THEN /\ Raise(ErrPage)
              /\ UNCHANGED <<trs, vehicles, idx>>
         ELSE /\ trs' = t
              /\ vehicles' = ParseRows(t)
              /\ IF Len(ParseRows(t)) = 0
                 THEN /\ pending' = Returned(ZeroRowsResult)
                      /\ pc' = "finally"
                      /\ UNCHANGED idx
                 ELSE /\ idx' = 1
                      /\ pc' = "upsert"
                      /\ UNCHANGED pending
    /\ UNCHANGED <<svcVars, parseVars, replyVars, envVars, loginVars, caller, browser, pollVars, insertedCount, updatedCount,
                   errorCount, outcomes, store, clock, endVars>>

\* one iteration of the upsert loop: the statement, then the counters; a
\* rejected statement is caught and counted
UpsertVehicle ==
    /\ pc = "upsert"
    /\ idx <= Len(vehicles)
    /\ \E storeUp \in BOOLEAN :
         LET vehicle == vehicles[idx]
             failed  == ~storeUp \/ ConstraintViolation(vehicle)
             kind    == IF failed THEN "error"
                        ELSE IF ReturnsInserted(store, vehicle) THEN "inserted"
                        ELSE "updated"
         IN  /\ store' = IF failed THEN store ELSE Upsert(store, vehicle, clock)
             /\ insertedCount' = insertedCount + (IF kind = "inserted" THEN 1 ELSE 0)
             /\ updatedCount' = updatedCount + (IF kind = "updated" THEN 1 ELSE 0)
             /\ errorCount' = errorCount + (IF kind = "error" THEN 1 ELSE 0)
             /\ outcomes' = Append(outcomes, kind)
             /\ idx' = NextVehicle(idx, kind, Len(vehicles))
    /\ clock' = clock + 1
    /\ UNCHANGED <<svcVars, parseVars, replyVars, envVars, loginVars, caller, pc, browser, pollVars, trs, vehicles, pending, endVars>>

\* the summary returned after the loop
ReturnSummary ==
    /\ pc = "upsert"
    /\ idx > Len(vehicles)
    /\ pending' = Returned(SummaryResult(Len(vehicles), insertedCount, updatedCount, errorCount))
    /\ pc' = "finally"
    /\ UNCHANGED <<svcVars, parseVars, replyVars, envVars, loginVars, caller, browser, pollVars, loopVars, endVars>>

\* the finally block, after which the job's promise settles
Finally ==
    /\ pc = "finally"
    /\ browser' = AfterFinally(browser)
    /\ outcome' = pending
    /\ pc' = "exit"
    /\ UNCHANGED <<svcVars, parseVars, replyVars, envVars, loginVars, caller, pollVars, loopVars, pending, syncResp, exitCode>>

\* POST /api/inventory/sync after the job settled
SyncRespond ==
    /\ pc = "exit"
    /\ caller = "http"
    /\ syncResp' = IF outcome.kind = "returned"
                   THEN [status |-> 200, body |-> SyncSuccessBody(outcome.value)]
                   ELSE [status |-> 500, body |-> SyncErrorBody(outcome.value)]
    /\ pc' = "responded"
    /\ UNCHANGED <<svcVars, parseVars, replyVars, envVars, loginVars, caller, browser, pollVars, loopVars, pending, outcome, exitCode>>

\* the then/catch of the direct run
DirectExit ==
    /\ pc = "exit"
    /\ caller = "cli"
    /\ exitCode' = IF outcome.kind = "returned" THEN 0 ELSE 1
    /\ pc' = "responded"
    /\ UNCHANGED <<svcVars, parseVars, replyVars, envVars, loginVars, caller, browser, pollVars, loopVars, pending, outcome, syncResp>>

SyncNext ==
    \/ SyncRequest
    \/ RunDirect
    \/ CheckCredentials
    \/ LaunchBrowser
    \/ OpenLoginPage
    \/ LocateLoginFields
    \/ EnterCredentials
    \/ SubmitLogin
    \/ GotoDashboard
    \/ ClickInventoryTab
    \/ BrowseInventory
    \/ WaitForTable
    \/ ChangeHash
    \/ PollAttempt
    \/ PollExit
    \/ ExtractVehicles
    \/ UpsertVehicle
    \/ ReturnSummary
    \/ Finally
    \/ SyncRespond
    \/ DirectExit

\* ------------------------------------------------------------------------
\* POST /agent/reply
\* ------------------------------------------------------------------------

\* JavaScript values of request bodies and of parsed AI output
JUndefined == [t |-> "undefined", v |-> None]

JNull == [t |-> "null", v |-> None]

JStr(s) == [t |-> "string", v |-> s]

JArr(a) == [t |-> "array", v |-> a]

JObj(o) == [t |-> "object", v |-> o]

\* obj?.key: undefined unless obj is an object holding the key
Get(obj, key) ==
    IF obj.t = "object" /\ key \in DOMAIN obj.v THEN obj.v[key] ELSE JUndefined

\* the first position at which pat occurs in s, 0 when it does not
FirstIndexOf(s, pat) ==
    IF Includes(s, pat)
    THEN CHOOSE i \in 1..(Len(s) - Len(pat) + 1) :
            /\ SubSeq(s, i, i + Len(pat) - 1) = pat
            /\ \A j \in 1..(i - 1) : SubSeq(s, j, j + Len(pat) - 1) # pat
    ELSE 0

\* s.replace(pat, ''): the first occurrence of pat removed
RemoveFirst(s, pat) ==
    LET i == FirstIndexOf(s, pat)
    IN  IF i = 0 THEN s
        ELSE SubSeq(s, 1, i - 1) \o SubSeq(s, i + Len(pat), Len(s))

\* 'Bearer '
BearerPrefix == <<"B", "e", "a", "r", "e", "r", " ">>

\* requireAuth: whether next() is called.  authorization is the header
\* (None: absent), validToken is INTERNAL_TOKEN (None: unset)
AuthPasses(authorization, validToken) ==
    LET token == IF IsSome(authorization)
                 THEN Some(RemoveFirst(Val(authorization), BearerPrefix))
                 ELSE None
        notValid == validToken = None \/ Val(validToken) = <<>>
    IN  notValid \/ token = validToken

\* res.status(401).json({ error: 'Unauthorized' })
UnauthorizedResponse == [status |-> 401, body |-> [error |-> <<"Unauthorized">>]]

\* the validation failure of the handler
NoMessagesResponse ==
    [status |-> 400,
     body |-> [suggestions |-> <<>>, error |-> <<"No conversation context provided">>]]

NoApiKeyResponse ==
    [status |-> 500,
     body |-> [suggestions |-> <<>>, error |-> <<"OpenAI API key not configured">>]]

\* mutant of ReplyErrorResponse: the rate-limit answer carries status 500
ReplyErrorResponseAll500(message) ==
    IF Includes(message, <<"API key">>)
    THEN [status |-> 500,
          body |-> [suggestions |-> <<>>, error |-> <<"Invalid OpenAI API key">>]]
    ELSE IF Includes(message, <<"quota">>)
    THEN [status |-> 500,
          body |-> [suggestions |-> <<>>,
                    error |-> <<"OpenAI quota exceeded - check your billing">>]]
    ELSE IF Includes(message, <<"rate_limit">>)
    THEN [status |-> 500,
          body |-> [suggestions |-> <<>>,
                    error |-> <<"Rate limited by OpenAI - try again in a moment">>]]
    ELSE [status |-> 500,
          body |-> [suggestions |-> <<>>,
                    error |-> IF message = <<>>
                              THEN <<"Unknown error calling OpenAI">>
                              ELSE message]]

\* the catch block of the handler: the error classified by its message
ReplyErrorResponse(message) ==
    IF Includes(message, <<"API key">>)
    THEN [status |-> 500,
          body |-> [suggestions |-> <<>>, error |-> <<"Invalid OpenAI API key">>]]
    ELSE IF Includes(message, <<"quota">>)
    THEN [status |-> 500,
          body |-> [suggestions |-> <<>>,
                    error |-> <<"OpenAI quota exceeded - check your billing">>]]
    ELSE IF Includes(message, <<"rate_limit">>)
    THEN [status |-> 429,
          body |-> [suggestions |-> <<>>,
                    error |-> <<"Rate limited by OpenAI - try again in a moment">>]]
    ELSE [status |-> 500,
          body |-> [suggestions |-> <<>>,
                    error |-> IF message = <<>>
                              THEN <<"Unknown error calling OpenAI">>
                              ELSE message]]

\* buildUserPrompt: the conversation history, one line per message
buildUserPrompt(messages) ==
    [i \in 1..Len(messages) |->
        <<IF messages[i].sender = "customer" THEN "Customer" ELSE "Rep",
          messages[i].text>>]

\* a string value trimmed, None when the value is no string or trims to ''
TrimmedString(x) ==
    IF x.t = "string" /\ Trim(x.v) # <<>> THEN Some(Trim(x.v)) ELSE None

\* extractReply: None stands for null and for the falsy ''
extractReply(parsed) ==
    IF IsSome(TrimmedString(Get(parsed, "reply")))
    THEN TrimmedString(Get(parsed, "reply"))
    ELSE IF IsSome(TrimmedString(Get(parsed, "suggestion")))
    THEN TrimmedString(Get(parsed, "suggestion"))
    ELSE LET list == Get(parsed, "suggestions")
         IN  IF list.t = "array" /\ list.v # <<>>
                /\ ~(list.v[1].t \in {"undefined", "null"})
                /\ ~(list.v[1].t = "string" /\ list.v[1].v = <<>>)
             THEN IF list.v[1].t = "string"
                  THEN TrimmedString(list.v[1])
                  ELSE TrimmedString(Get(list.v[1], "text"))
             ELSE None

\* the handler after the completion arrived: raw.json is the value
\* JSON.parse(raw) yields, None when it throws
ReplyFromCompletion(raw) ==
    LET reply == IF IsSome(raw.json) THEN extractReply(Val(raw.json)) ELSE None
    IN  IF reply = None
        THEN [status |-> 500,
              body |-> [suggestions |-> <<>>, error |-> <<"AI generated no valid reply">>,
                        debug |-> [rawResponse |-> raw.text]]]
        ELSE [status |-> 200,
              body |-> [suggestions |-> <<Val(reply)>>, aiGenerated |-> TRUE]]

\* most messages a request carries
MaxMessages == 2

TokenA == <<"s", "3">>

\* Authorization headers a request may carry (None: no header)
AuthHeaders ==
    {None,
     Some(BearerPrefix \o TokenA),
     Some(BearerPrefix \o <<"x">>),
     Some(BearerPrefix),
     Some(TokenA),
     Some(<<"s">> \o BearerPrefix \o <<"3">>)}

\* INTERNAL_TOKEN: unset, set to '', or set to a token
InternalTokens == {None, Some(<<>>), Some(TokenA)}

Turns ==
    {[sender |-> "customer", text |-> <<"H", "i">>],
     [sender |-> "rep", text |-> <<" ">>]}

TurnLists == UNION {[1..k -> Turns] : k \in 0..MaxMessages}

\* req.body.messages: absent, null, a string, or an array of turns
MessageKinds == {"undefined", "null", "string", "array"}

MessageValue(kind, turns) ==
    CASE kind = "undefined" -> JUndefined
      [] kind = "null" -> JNull
      [] kind = "string" -> JStr(<<"h", "i">>)
      [] kind = "array" -> JArr(turns)

TextHi == <<"H", "i", "!">>

\* contents the completion may carry: its text and what JSON.parse makes of it
CompletionKinds == 1..9

Completion(k) ==
    CASE k = 1 -> [text |-> <<"{\"reply\":\"Hi!\"}">>,
                   json |-> Some(JObj([reply |-> JStr(TextHi)]))]
      [] k = 2 -> [text |-> <<"{\"reply\":\" \"}">>,
                   json |-> Some(JObj([reply |-> JStr(<<" ">>)]))]
      [] k = 3 -> [text |-> <<"{\"suggestion\":\" Hi!\"}">>,
                   json |-> Some(JObj([suggestion |-> JStr(<<" ">> \o TextHi)]))]
      [] k = 4 -> [text |-> <<"{\"suggestions\":[\"Hi!\"]}">>,
                   json |-> Some(JObj([suggestions |-> JArr(<<JStr(TextHi)>>)]))]
      [] k = 5 -> [text |-> <<"{\"suggestions\":[{\"text\":\"Hi!\"}]}">>,
                   json |-> Some(JObj([suggestions |->
                                JArr(<<JObj([text |-> JStr(TextHi)])>>)]))]
      [] k = 6 -> [text |-> <<"{\"suggestions\":[]}">>,
                   json |-> Some(JObj([suggestions |-> JArr(<<>>)]))]
      [] k = 7 -> [text |-> <<"{}">>, json |-> Some(JObj(<<>>))]
      [] k = 8 -> [text |-> <<"null">>, json |-> Some(JNull)]
      [] k = 9 -> [text |-> <<"1. Hi!", "\n", "- Hello">>, json |-> None]

\* messages of the errors the completion call may reject with
UpstreamErrors ==
    {<<"Incorrect ", "API key", " provided">>,
     <<"You exceeded your current ", "quota">>,
     <<"insufficient_", "quota">>,
     <<"rate_limit", " reached">>,
     <<"quota", " or ", "rate_limit">>,
     <<"Request timed out.">>,
     <<>>}

\* TypeError messages of the handler's own property reads
ErrNullLength == <<"Cannot read properties of null (reading 'length')">>

ErrMapNotFunction == <<"messages.map is not a function">>

ReplyInit ==
    /\ internalToken \in InternalTokens
    /\ apiKeySet \in BOOLEAN
    /\ reqAuth \in AuthHeaders
    /\ \E kind \in MessageKinds, turns \in TurnLists :
         /\ kind # "array" => turns = <<>>
         /\ reqMessages = MessageValue(kind, turns)
    /\ rpc = "idle"
    /\ upstreamCalls = 0
    /\ sentPrompt = <<>>
    /\ caught = None
    /\ replyResp = NoResponse

\* the requireAuth middleware
RequireAuth ==
    /\ rpc = "idle"
    /\ IF AuthPasses(reqAuth, internalToken)
       THEN rpc' = "handler" /\ UNCHANGED replyResp
       ELSE rpc' = "done" /\ replyResp' = UnauthorizedResponse
    /\ UNCHANGED <<svcVars, parseVars, syncVars, reqVars, upstreamCalls, sentPrompt, caught>>

\* const { messages = [] } = req.body || {}
DefaultedMessages(m) == IF m.t = "undefined" THEN JArr(<<>>) ELSE m

\* the handler up to the await of the completion call
ReplyHandler ==
    /\ rpc = "handler"
    /\ LET messages == DefaultedMessages(reqMessages)
       IN  IF messages.t = "null"
           THEN /\ caught' = Some(ErrNullLength)
                /\ replyResp' = ReplyErrorResponse(ErrNullLength)
                /\ rpc' = "done"
                /\ UNCHANGED <<upstreamCalls, sentPrompt>>
           ELSE IF messages.v = <<>>
           THEN /\ replyResp' = NoMessagesResponse
                /\ rpc' = "done"
                /\ UNCHANGED <<upstreamCalls, sentPrompt, caught>>
           ELSE IF ~apiKeySet
           THEN /\ replyResp' = NoApiKeyResponse
                /\ rpc' = "done"
                /\ UNCHANGED <<upstreamCalls, sentPrompt, caught>>
           ELSE IF messages.t # "array"
           THEN /\ caught' = Some(ErrMapNotFunction)
                /\ replyResp' = ReplyErrorResponse(ErrMapNotFunction)
                /\ rpc' = "done"
                /\ UNCHANGED <<upstreamCalls, sentPrompt>>
           ELSE /\ sentPrompt' = buildUserPrompt(messages.v)
                /\ upstreamCalls' = upstreamCalls + 1
                /\ rpc' = "calling"
                /\ UNCHANGED <<replyResp, caught>>
    /\ UNCHANGED <<svcVars, parseVars, syncVars, reqVars>>

\* the completion call resolves: the reply is extracted and returned
CompletionResolves ==
    /\ rpc = "calling"
    /\ \E k \in CompletionKinds : replyResp' = ReplyFromCompletion(Completion(k))
    /\ rpc' = "done"
    /\ UNCHANGED <<svcVars, parseVars, syncVars, reqVars, upstreamCalls, sentPrompt, caught>>

\* the completion call rejects: the catch block answers
CompletionRejects ==
    /\ rpc = "calling"
    /\ \E message \in UpstreamErrors :
         /\ caught' = Some(message)
         /\ replyResp' = ReplyErrorResponse(message)
    /\ rpc' = "done"
    /\ UNCHANGED <<svcVars, parseVars, syncVars, reqVars, upstreamCalls, sentPrompt>>

ReplyNext ==
    \/ RequireAuth
    \/ ReplyHandler
    \/ CompletionResolves
    \/ CompletionRejects

\* ------------------------------------------------------------------------
\* GET /api/inventory/search
\* ------------------------------------------------------------------------

UpperCase ==
    <<"A", "B", "C", "D", "E", "F", "G", "H", "I", "J", "K", "L", "M",
      "N", "O", "P", "Q", "R", "S", "T", "U", "V", "W", "X", "Y", "Z">>

LowerCase ==
    <<"a", "b", "c", "d", "e", "f", "g", "h", "i", "j", "k", "l", "m",
      "n", "o", "p", "q", "r", "s", "t", "u", "v", "w", "x", "y", "z">>

\* toLowerCase() and LOWER(): the ASCII letters
ToLower(s) ==
    [i \in 1..Len(s) |->
        IF \E j \in 1..Len(UpperCase) : UpperCase[j] = s[i]
        THEN LowerCase[CHOOSE j \in 1..Len(UpperCase) : UpperCase[j] = s[i]]
        ELSE s[i]]

\* the decimal digits of a natural number
RECURSIVE NatToText(_)
NatToText(n) ==
    IF n < 10 THEN <<CHOOSE c \in DecDigits : DigitVal(c) = n>>
    ELSE NatToText(n \div 10) \o <<CHOOSE c \in DecDigits : DigitVal(c) = n % 10>>

\* CAST(year AS TEXT)
IntToText(n) == IF n < 0 THEN <<"-">> \o NatToText(0 - n) ELSE NatToText(n)

\* a LIKE pattern ending in a lone escape character is rejected by the store
RECURSIVE LikeEndsInEscape(_)
LikeEndsInEscape(pat) ==
    IF pat = <<>> THEN FALSE
    ELSE IF Head(pat) = "\\"
         THEN Len(pat) = 1 \/ LikeEndsInEscape(Tail(Tail(pat)))
         ELSE LikeEndsInEscape(Tail(pat))

\* text LIKE pat: % is any run of characters, _ any one character, and a
\* backslash takes the next character literally
RECURSIVE LikeMatch(_, _)
LikeMatch(text, pat) ==
    IF pat = <<>> THEN text = <<>>
    ELSE IF Head(pat) = "%"
         THEN LikeMatch(text, Tail(pat))
                 \/ (text # <<>> /\ LikeMatch(Tail(text), pat))
    ELSE IF Head(pat) = "\\" /\ Len(pat) >= 2
         THEN /\ text # <<>>
              /\ Head(text) = pat[2]
              /\ LikeMatch(Tail(text), Tail(Tail(pat)))
    ELSE IF Head(pat) = "_"
         THEN text # <<>> /\ LikeMatch(Tail(text), Tail(pat))
    ELSE text # <<>> /\ Head(text) = Head(pat) /\ LikeMatch(Tail(text), Tail(pat))

\* q.toLowerCase().split(/\s+/).filter(t => t.length > 1)
SearchTerms(q) == SelectSeq(SplitWS(ToLower(q)), LAMBDA t : Len(t) > 1)

\* terms.map(t => `%${t}%`)
SearchParams(terms) == [i \in 1..Len(terms) |-> <<"%">> \o terms[i] \o <<"%">>]

\* one element of conditions: LOWER(make) LIKE $n OR LOWER(model) LIKE $n OR
\* LOWER(trim) LIKE $n OR CAST(year AS TEXT) LIKE $n (a NULL year matches
\* nothing)
SearchCondition(row, param) ==
    \/ LikeMatch(ToLower(row.make), param)
    \/ LikeMatch(ToLower(row.model), param)
    \/ LikeMatch(ToLower(row.trim), param)
    \/ IsSome(row.year) /\ LikeMatch(IntToText(Val(row.year)), param)

\* the columns of the SELECT list; body_style, exterior_color and mileage
\* are written by no statement of the service and stay NULL
SearchColumns(row) ==
    [stock_number |-> row.stock_number, year |-> row.year, make |-> row.make,
     model |-> row.model, trim |-> row.trim, vin |-> row.vin,
     body_style |-> None, exterior_color |-> None, mileage |-> None,
     status |-> row.status]

\* the rows of the query. ORDER BY is not modelled (the result is the set of
\* rows) and LIMIT 10 exceeds the rows of every table considered
SearchRows(table, params) ==
    {SearchColumns(table[k]) : k \in
        {j \in DOMAIN table :
            /\ table[j].status = "available"
            /\ \A i \in 1..Len(params) : SearchCondition(table[j], params[i])}}

SearchTooShort == [success |-> FALSE, error |-> "Query too short", vehicles |-> {}]

SearchFailed == [success |-> FALSE, error |-> "Search failed", vehicles |-> {}]

\* the handler: 400 for a missing or short q; with no term left the WHERE
\* clause reads "AND ()", which the store rejects, as it does a query of a
\* table that does not exist: 500 from the catch block
Search(q, table, exists) ==
    IF q = None \/ Len(Val(q)) < 2
    THEN [status |-> 400, body |-> SearchTooShort]
    ELSE LET terms  == SearchTerms(Val(q))
             params == SearchParams(terms)
         IN  IF \/ terms = <<>>
                \/ ~exists
                \/ \E i \in 1..Len(params) : LikeEndsInEscape(params[i])
             THEN [status |-> 500, body |-> SearchFailed]
             ELSE LET rows == SearchRows(table, params)
                  IN  [status |-> 200,
                       body |-> [success |-> TRUE, query |-> Val(q),
                                 count |-> Cardinality(rows), vehicles |-> rows]]

\* longest q
MaxQueryLen == 3

QueryChars == {"i", "L", "2", "4", "_", " "}

\* no q, and every q of at most MaxQueryLen characters
Queries ==
    {None} \cup {Some(q) : q \in UNION {[1..k -> QueryChars] : k \in 0..MaxQueryLen}}

StockC == <<"M", "3">>

\* a table of three rows: one sold, one without year and make
ThreeRowStore ==
    (StockB :> [stock_number |-> StockB, year |-> Some(2024),
                make |-> <<"C", "h", "e", "v", "y">>, model |-> ModelB,
                trim |-> TrimA, vin |-> Some(VinA), status |-> "available",
                created_at |-> 0, updated_at |-> 0, last_scraped_at |-> 0])
    @@ (StockC :> [stock_number |-> StockC, year |-> None, make |-> <<>>,
                   model |-> ModelA, trim |-> <<"4", "L", "T">>, vin |-> None,
                   status |-> "available",
                   created_at |-> 0, updated_at |-> 0, last_scraped_at |-> 0])
    @@ SoldStore

SearchStores == {EmptyStore, SoldStore, ThreeRowStore}

NoSearchResponse == [status |-> 0, body |-> SearchFailed]

SearchCall ==
    /\ searchResp.status = 0
    /\ searchResp' = Search(searchQ, inventory, tableExists)
    /\ UNCHANGED <<parseVars, syncVars, replyVars, tableExists, inventory,
                   inventory0, dbNow, searchQ, statsResp, runs, sampleIdx,
                   testResp, setupResp>>

\* ------------------------------------------------------------------------
\* The other inventory endpoints and concurrent sync runs
\* ------------------------------------------------------------------------

\* SELECT COUNT(*), COUNT(*) FILTER (...), MAX(last_scraped_at) FROM inventory
StatsRow(table) ==
    [total_vehicles |-> Cardinality(DOMAIN table),
     available |-> Cardinality({k \in DOMAIN table : table[k].status = "available"}),
     sold |-> Cardinality({k \in DOMAIN table : table[k].status = "sold"}),
     last_updated |->
        IF DOMAIN table = {} THEN None
        ELSE Some(CHOOSE t \in {table[k].last_scraped_at : k \in DOMAIN table} :
                    \A k \in DOMAIN table : table[k].last_scraped_at <= t)]

NoStats == [total_vehicles |-> 0, available |-> 0, sold |-> 0, last_updated |-> None]

NoStatsResponse == [status |-> 0, success |-> FALSE, stats |-> NoStats]

\* GET /api/inventory/stats
StatsCall ==
    /\ statsResp.status = 0
    /\ statsResp' = IF tableExists
                    THEN [status |-> 200, success |-> TRUE, stats |-> StatsRow(inventory)]
                    ELSE [status |-> 500, success |-> FALSE, stats |-> NoStats]
    /\ UNCHANGED <<parseVars, syncVars, replyVars, tableExists, inventory,
                   inventory0, dbNow, searchQ, searchResp, runs, sampleIdx,
                   testResp, setupResp>>

\* GET /api/setup/create-table: CREATE TABLE IF NOT EXISTS, an existing table
\* is left as it is
CreateTable ==
    /\ setupResp = 0
    /\ tableExists' = TRUE
    /\ setupResp' = 200
    /\ UNCHANGED <<parseVars, syncVars, replyVars, inventory, inventory0, dbNow,
                   searchQ, searchResp, statsResp, runs, sampleIdx, testResp>>

\* const sampleVehicles
sampleVehicles ==
    <<[stock |-> <<"M", "3", "7", "3", "8", "5">>, year |-> 2024,
       make |-> <<"C", "h", "e", "v", "r", "o", "l", "e", "t">>,
       model |-> <<"S", "i", "l", "v", "e", "r", "a", "d", "o", " ", "1", "5", "0", "0">>,
       trim |-> <<"W", "o", "r", "k", " ", "T", "r", "u", "c", "k">>],
      [stock |-> <<"M", "3", "7", "4", "1", "0">>, year |-> 2024,
       make |-> <<"C", "h", "e", "v", "r", "o", "l", "e", "t">>,
       model |-> <<"S", "i", "l", "v", "e", "r", "a", "d", "o", " ", "1", "5", "0", "0">>,
       trim |-> <<"L", "T">>],
      [stock |-> <<"M", "3", "7", "5", "3", "7">>, year |-> 2025,
       make |-> <<"C", "h", "e", "v", "r", "o", "l", "e", "t">>,
       model |-> <<"B", "l", "a", "z", "e", "r">>,
       trim |-> <<"R", "S">>],
      [stock |-> <<"M", "3", "7", "5", "6", "4">>, year |-> 2024,
       make |-> <<"C", "h", "e", "v", "r", "o", "l", "e", "t">>,
       model |-> <<"E", "q", "u", "i", "n", "o", "x">>,
       trim |-> <<"L", "T">>],
      [stock |-> <<"M", "3", "8", "3", "4", "7">>, year |-> 2025,
       make |-> <<"C", "h", "e", "v", "r", "o", "l", "e", "t">>,
       model |-> <<"C", "o", "r", "v", "e", "t", "t", "e">>,
       trim |-> <<"S", "t", "i", "n", "g", "r", "a", "y">>]>>

\* the row a sample vehicle is inserted as: vin is not listed and stays NULL
SampleRow(v, t) ==
    [stock_number |-> v.stock, year |-> Some(v.year), make |-> v.make,
     model |-> v.model, trim |-> v.trim, vin |-> None, status |-> "available",
     created_at |-> t, updated_at |-> t, last_scraped_at |-> t]

\* INSERT ... ON CONFLICT (stock_number) DO NOTHING
InsertSample(table, v, t) ==
    IF v.stock \in DOMAIN table THEN table ELSE (v.stock :> SampleRow(v, t)) @@ table

\* GET /api/inventory/test-data is called
TestDataCall ==
    /\ sampleIdx = 0
    /\ sampleIdx' = 1
    /\ UNCHANGED <<parseVars, syncVars, replyVars, tableExists, inventory,
                   inventory0, dbNow, searchQ, searchResp, statsResp, runs,
                   testResp, setupResp>>

\* one statement of its loop; a rejected statement ends the loop in the
\* catch block
TestDataInsert ==
    /\ sampleIdx \in 1..Len(sampleVehicles)
    /\ IF tableExists
       THEN /\ inventory' = InsertSample(inventory, sampleVehicles[sampleIdx], dbNow)
            /\ sampleIdx' = sampleIdx + 1
            /\ testResp' = IF sampleIdx = Len(sampleVehicles) THEN 200 ELSE testResp
       ELSE /\ sampleIdx' = Len(sampleVehicles) + 1
            /\ testResp' = 500
            /\ UNCHANGED inventory
    /\ UNCHANGED <<parseVars, syncVars, replyVars, tableExists, inventory0, dbNow,
                   searchQ, searchResp, statsResp, runs, setupResp>>

\* the sync runs POST /api/inventory/sync may have under way at once: the
\* handler awaits its own run and holds no lock
RunIds == {"first", "second"}

IdleRun == [st |-> "idle", vehicles |-> <<>>, idx |-> 0, outcomes |-> <<>>]

\* records a run may have scraped: two for one stock number, and the
\* example record, whose stock number is also a sample vehicle's
RunRecords ==
    {Val(ParseRow(DataRow(StockA, <<"2", "4", " ", "C", "h", "e", "v", "y">>, ModelA, VinA))),
     Val(ParseRow(DataRow(StockA, <<"2", "0", "2", "5", " ", "G", "M", "C">>, ModelB, <<>>))),
     Val(ParseRow(ExampleRow))}

RunLists == [1..1 -> RunRecords] \cup [1..2 -> RunRecords]

\* a run has scraped its vehicles and enters the upsert loop
RunScraped(r) ==
    /\ runs[r].st = "idle"
    /\ \E vs \in RunLists :
         runs' = [runs EXCEPT ![r] = [st |-> "running", vehicles |-> vs,
                                      idx |-> 1, outcomes |-> <<>>]]
    /\ UNCHANGED <<parseVars, syncVars, replyVars, tableExists, inventory,
                   inventory0, dbNow, searchQ, searchResp, statsResp, sampleIdx,
                   testResp, setupResp>>

\* one iteration of the upsert loop of run r: one statement, atomic in the
\* store; the counters of the run are the counts of its outcomes
RunUpsert(r) ==
    /\ runs[r].st = "running"
    /\ runs[r].idx <= Len(runs[r].vehicles)
    /\ LET vehicle == runs[r].vehicles[runs[r].idx]
           failed  == ~tableExists \/ ConstraintViolation(vehicle)
           kind    == IF failed THEN "error"
                      ELSE IF ReturnsInserted(inventory, vehicle) THEN "inserted"
                      ELSE "updated"
       IN  /\ inventory' = IF failed THEN inventory ELSE Upsert(inventory, vehicle, dbNow)
           /\ runs' = [runs EXCEPT ![r].outcomes = Append(@, kind),
                                   ![r].idx = NextVehicle(@, kind, Len(runs[r].vehicles))]
    /\ UNCHANGED <<parseVars, syncVars, replyVars, tableExists, inventory0, dbNow,
                   searchQ, searchResp, statsResp, sampleIdx, testResp, setupResp>>

\* the run returns its summary
RunReturn(r) ==
    /\ runs[r].st = "running"
    /\ runs[r].idx > Len(runs[r].vehicles)
    /\ runs' = [runs EXCEPT ![r].st = "done"]
    /\ UNCHANGED <<parseVars, syncVars, replyVars, tableExists, inventory,
                   inventory0, dbNow, searchQ, searchResp, statsResp, sampleIdx,
                   testResp, setupResp>>

\* latest CURRENT_TIMESTAMP considered
MaxNow == 2

\* time passes in the store; statements of one instant carry one timestamp
Tick ==
    /\ dbNow < MaxNow
    /\ dbNow' = dbNow + 1
    /\ UNCHANGED <<parseVars, syncVars, replyVars, tableExists, inventory,
                   inventory0, searchQ, searchResp, statsResp, runs, sampleIdx,
                   testResp, setupResp>>

\* the endpoints and runs at rest, over a given table
ServiceInit ==
    /\ inventory = inventory0
    /\ dbNow = 1
    /\ searchResp = NoSearchResponse
    /\ statsResp = NoStatsResponse
    /\ runs = [r \in RunIds |-> IdleRun]
    /\ sampleIdx = 0
    /\ testResp = 0
    /\ setupResp = 0

\* ------------------------------------------------------------------------
\* Specifications
\* ------------------------------------------------------------------------

\* the parts of the service a specification leaves at rest
ParseIdle == ParseInit /\ pin = DataRow(StockA, <<>>, ModelA, VinA)

SyncIdle == SyncInit /\ credsSet = TRUE /\ variant = "index" /\ store0 = EmptyStore

ReplyIdle ==
    /\ ReplyInit
    /\ internalToken = None
    /\ apiKeySet = TRUE
    /\ reqAuth = None
    /\ reqMessages = JUndefined

ServiceIdle ==
    /\ tableExists = TRUE
    /\ inventory0 = EmptyStore
    /\ searchQ = None
    /\ ServiceInit

InitParse == ParseInit /\ SyncIdle /\ ReplyIdle /\ ServiceIdle

NextParse == ParseStep

\* the row parser applied to every cell text of the bound
SpecParse == InitParse /\ [][NextParse]_vars

InitSync == SyncInit /\ ParseIdle /\ ReplyIdle /\ ServiceIdle

NextSync == SyncNext

\* the Sync Job run once, from the trigger endpoint or directly
SpecSync == InitSync /\ [][NextSync]_vars

InitReply == ReplyInit /\ ParseIdle /\ SyncIdle /\ ServiceIdle

NextReply == ReplyNext

\* one request to POST /agent/reply
SpecReply == InitReply /\ [][NextReply]_vars

InitConfig ==
    /\ SyncInit
    /\ credsSet = FALSE
    /\ ReplyInit
    /\ apiKeySet = FALSE
    /\ ParseIdle /\ ServiceIdle

NextConfig ==
    \/ SyncRequest
    \/ RunDirect
    \/ CheckCredentials
    \/ DirectExit
    \/ RequireAuth
    \/ ReplyHandler

\* the service with neither the site credentials nor the API key configured:
\* a sync trigger, a direct run and a reply request
SpecConfig == InitConfig /\ [][NextConfig]_vars

InitSearch ==
    /\ tableExists \in BOOLEAN
    /\ inventory0 \in (IF tableExists THEN SearchStores ELSE {EmptyStore})
    /\ searchQ \in Queries
    /\ ServiceInit
    /\ ParseIdle /\ SyncIdle /\ ReplyIdle

NextSearch == SearchCall \/ StatsCall

\* the reading endpoints: one search request, over every q of the bound, and
\* one stats request
SpecSearch == InitSearch /\ [][NextSearch]_vars

\* the q of the search request made while sync runs are under way
ServiceQuery == Some(<<"2", "0">>)

InitService ==
    /\ tableExists \in BOOLEAN
    /\ inventory0 \in (IF tableExists THEN {EmptyStore, SoldStore} ELSE {EmptyStore})
    /\ searchQ = ServiceQuery
    /\ ServiceInit
    /\ ParseIdle /\ SyncIdle /\ ReplyIdle

NextService ==
    \/ \E r \in RunIds : RunScraped(r)
    \/ \E r \in RunIds : RunUpsert(r)
    \/ \E r \in RunIds : RunReturn(r)
    \/ TestDataCall
    \/ TestDataInsert
    \/ CreateTable

\* sync runs and the writing endpoints, in any order, within one instant of
\* the store's clock
SpecService == InitService /\ [][NextService]_vars

InitRace ==
    /\ tableExists = TRUE
    /\ inventory0 \in {EmptyStore, SoldStore}
    /\ searchQ = ServiceQuery
    /\ ServiceInit
    /\ ParseIdle /\ SyncIdle /\ ReplyIdle

NextRace ==
    \/ \E r \in RunIds : RunScraped(r)
    \/ \E r \in RunIds : RunUpsert(r)
    \/ \E r \in RunIds : RunReturn(r)
    \/ SearchCall
    \/ Tick

\* two sync runs under way at once, and a search request among their statements
SpecRace == InitRace /\ [][NextRace]_vars

\* ------------------------------------------------------------------------
\* Properties of the reconciliation loop
\* ------------------------------------------------------------------------

\* the upsert loop has run to its end
LoopFinished == idx > 0 /\ idx > Len(vehicles)

\* the scraped fields of a stored row are those of record v
RowMatches(row, v) ==
    /\ row.stock_number = v.stock_number
    /\ row.year = v.year
    /\ row.make = v.make
    /\ row.model = v.model
    /\ row.trim = v.trim
    /\ row.vin = v.vin
    /\ row.status = v.status

StocksOf(vs) == {vs[i].stock_number : i \in 1..Len(vs)}

\* the position of the last record of vs with stock number k
LastIndexOf(vs, k) ==
    CHOOSE i \in 1..Len(vs) :
        /\ vs[i].stock_number = k
        /\ \A j \in (i + 1)..Len(vs) : vs[j].stock_number # k

\* C1: from an empty store, once the loop has upserted N records with K
\* distinct stock numbers and no upsert failed, the store holds exactly K
\* rows, one per stock number, each equal in year, make, model, trim, vin
\* and status to the last record of the sequence with that stock number.
C1_StoreHoldsLastRecords ==
    (LoopFinished /\ DOMAIN store0 = {} /\ errorCount = 0) =>
        /\ DOMAIN store = StocksOf(vehicles)
        /\ Cardinality(DOMAIN store) = Cardinality(StocksOf(vehicles))
        /\ \A k \in DOMAIN store :
              RowMatches(store[k], vehicles[LastIndexOf(vehicles, k)])

\* two different records of one stock number, none failing, into an empty
\* store: N = 2, K = 1
C1_Witness ==
    /\ LoopFinished
    /\ DOMAIN store0 = {}
    /\ errorCount = 0
    /\ Len(vehicles) = 2
    /\ Cardinality(DOMAIN store) = 1
    /\ vehicles[1] # vehicles[2]

\* C2: the same record upserted twice into a store without its stock number
\* is reported as one insert followed by one update, and the stored row then
\* equals the record in every field but the store's timestamps.
C2_TwiceIsInsertThenUpdate ==
    (/\ LoopFinished
     /\ Len(vehicles) = 2
     /\ vehicles[1] = vehicles[2]
     /\ vehicles[1].stock_number \notin DOMAIN store0
     /\ errorCount = 0) =>
        /\ outcomes = <<"inserted", "updated">>
        /\ insertedCount = 1
        /\ updatedCount = 1
        /\ vehicles[1].stock_number \in DOMAIN store
        /\ RowMatches(store[vehicles[1].stock_number], vehicles[1])

C2_Witness ==
    /\ LoopFinished
    /\ Len(vehicles) = 2
    /\ vehicles[1] = vehicles[2]
    /\ vehicles[1].stock_number \notin DOMAIN store0
    /\ errorCount = 0
    /\ outcome.kind = "returned"

CountOf(seq, x) == Cardinality({i \in 1..Len(seq) : seq[i] = x})

\* the position of the last record with stock number k whose upsert succeeded
LastStoredIndex(k) ==
    CHOOSE i \in 1..Len(outcomes) :
        /\ vehicles[i].stock_number = k
        /\ outcomes[i] # "error"
        /\ \A j \in (i + 1)..Len(outcomes) :
              vehicles[j].stock_number = k => outcomes[j] = "error"

\* C3: a failed upsert is caught and counted and never aborts the batch:
\* once the loop is entered the job does not throw, every record is
\* attempted, every record whose upsert succeeded is in the store (also
\* after a failed one), and the returned result reports the counters
\* inserted, updated and errors.
C3_UpsertFailureContained ==
    /\ idx > 0 => (pending.kind # "thrown" /\ outcome.kind # "thrown")
    /\ (outcome.kind = "returned" /\ idx > 0) =>
          /\ Len(outcomes) = Len(vehicles)
          /\ {"inserted", "updated", "errors"} \subseteq DOMAIN outcome.value
          /\ outcome.value.errors = CountOf(outcomes, "error")
          /\ outcome.value.inserted = CountOf(outcomes, "inserted")
          /\ outcome.value.updated = CountOf(outcomes, "updated")
          /\ \A i \in 1..Len(outcomes) :
                outcomes[i] # "error" =>
                   /\ vehicles[i].stock_number \in DOMAIN store
                   /\ RowMatches(store[vehicles[i].stock_number],
                                 vehicles[LastStoredIndex(vehicles[i].stock_number)])

\* a failed upsert followed by a successful one for another stock number
C3_Witness ==
    /\ outcome.kind = "returned"
    /\ Len(outcomes) = 2
    /\ outcomes[1] = "error"
    /\ outcomes[2] = "inserted"
    /\ outcome.value.errors = 1

\* ------------------------------------------------------------------------
\* Properties of discovery and of the job's exits
\* ------------------------------------------------------------------------

DiscoveryFailed(c) ==
    c.kind = "thrown" /\ c.value \in {ErrIframe, ErrTableWait}

\* C4: the polling loop makes at most 15 attempts; it succeeds on the first
\* attempt that shows a qualifying table and makes no attempt after it; when
\* none ever shows (attempts without any iframe included) it fails after
\* exactly the 15th attempt.
C4_PollingBound ==
    /\ attempt <= maxAttempts
    /\ (pending.kind = "thrown" /\ pending.value = ErrIframe) =>
          (attempt = maxAttempts /\ qualAt = 0)
    /\ qualAt # 0 => (inventoryFrame # None /\ attempt = qualAt)
    /\ inventoryFrame # None =>
          (qualAt # 0 /\ ~(pending.kind = "thrown" /\ pending.value = ErrIframe))

\* the qualifying table first shows on the 10th attempt
C4_Witness ==
    /\ pc = "extract"
    /\ inventoryFrame # None
    /\ qualAt = 10
    /\ attempt = 10

\* C5: once the browser is launched it is closed before the job returns or
\* throws, whatever the exit path.
C5_BrowserClosedOnExit ==
    (outcome.kind # "none" /\ browser # "none") => browser = "closed"

\* a discovery failure of the polling revision, browser closed
C5_Witness ==
    /\ outcome.kind = "thrown"
    /\ outcome.value = ErrIframe
    /\ browser = "closed"

ExtractedNothing == trs # <<>> /\ vehicles = <<>>

\* C8: a table that parses to zero records makes the job return (not throw)
\* success false, vehiclesFound 0 and zero counters, and the trigger's
\* response has success false; a discovery failure is thrown instead and
\* answered with status 500 and no vehiclesFound, so the caller can tell
\* the two apart.
C8_ZeroRowsDistinguished ==
    /\ ExtractedNothing => (pending.kind = "returned" /\ outcome.kind # "thrown")
    /\ (ExtractedNothing /\ outcome.kind # "none") =>
          /\ outcome.kind = "returned"
          /\ outcome.value.success = FALSE
          /\ outcome.value.vehiclesFound = 0
          /\ outcome.value.inserted = 0
          /\ outcome.value.updated = 0
          /\ outcome.value.errors = 0
    /\ (ExtractedNothing /\ syncResp.status # 0) =>
          /\ syncResp.status = 200
          /\ syncResp.body.success = FALSE
          /\ syncResp.body.vehiclesFound = 0
    /\ (DiscoveryFailed(outcome) /\ syncResp.status # 0) =>
          /\ syncResp.status = 500
          /\ syncResp.body.success = FALSE
          /\ "vehiclesFound" \notin DOMAIN syncResp.body

\* the trigger answered a run whose table held only unusable rows
C8_Witness ==
    /\ ExtractedNothing
    /\ Len(trs) = 3
    /\ caller = "http"
    /\ syncResp.status = 200

\* ------------------------------------------------------------------------
\* Properties of POST /agent/reply
\* ------------------------------------------------------------------------

\* the service token is not configured
TokenUnconfigured == internalToken = None \/ Val(internalToken) = <<>>

\* the request carries no bearer token, or one that is not the service token
BearerMissingOrWrong ==
    \/ reqAuth = None
    \/ /\ ~TokenUnconfigured
       /\ Len(Val(reqAuth)) >= Len(BearerPrefix)
       /\ SubSeq(Val(reqAuth), 1, Len(BearerPrefix)) = BearerPrefix
       /\ SubSeq(Val(reqAuth), Len(BearerPrefix) + 1, Len(Val(reqAuth))) # Val(internalToken)

\* C6: a request whose bearer token is missing or wrong, or that arrives
\* while the service token is not configured, is answered 401 and no call
\* of the text-generation capability is made for it.
C6_UnauthenticatedRejected ==
    (BearerMissingOrWrong \/ TokenUnconfigured) =>
        /\ upstreamCalls = 0
        /\ rpc = "done" => replyResp.status = 401

\* C7: every response carries a suggestions array, and the array is empty
\* on every failure outcome, the authentication rejection included.
C7_AlwaysSuggestions ==
    rpc = "done" =>
        /\ "suggestions" \in DOMAIN replyResp.body
        /\ replyResp.status # 200 => replyResp.body.suggestions = <<>>

\* ------------------------------------------------------------------------
\* Properties of the row parser
\* ------------------------------------------------------------------------

\* the longest prefix of s free of white space
RECURSIVE TokenPrefix(_)
TokenPrefix(s) ==
    IF s = <<>> \/ Head(s) \in WS THEN <<>>
    ELSE <<Head(s)>> \o TokenPrefix(Tail(s))

\* s with every run of white space replaced by one space
RECURSIVE Squeeze(_)
Squeeze(s) ==
    IF s = <<>> THEN <<>>
    ELSE IF Head(s) \in WS THEN <<" ">> \o Squeeze(TrimStart(s))
    ELSE <<Head(s)>> \o Squeeze(Tail(s))

\* the year/make cell of the parsed row, its first token and what follows it
CellText == Trim(pin[5])

YearToken == TokenPrefix(CellText)

AfterYearToken == TrimStart(SubSeq(CellText, Len(YearToken) + 1, Len(CellText)))

AllDigits(tok) == tok # <<>> /\ \A i \in 1..Len(tok) : tok[i] \in DecDigits

NoDigit(tok) == \A i \in 1..Len(tok) : tok[i] \notin DecDigits

RECURSIVE DecimalValue(_)
DecimalValue(tok) ==
    IF tok = <<>> THEN 0
    ELSE 10 * DecimalValue(SubSeq(tok, 1, Len(tok) - 1)) + DigitVal(tok[Len(tok)])

\* C9: in a year/make cell of two or more tokens, a year token of integer
\* value y in [0,99] is recorded as 2000+y, one of value y >= 100 as y, and
\* a token without digits as an absent year.
C9_YearNormalization ==
    (pdone /\ IsSome(pout) /\ AfterYearToken # <<>>) =>
        /\ (AllDigits(YearToken) /\ DecimalValue(YearToken) <= 99) =>
              Val(pout).year = Some(2000 + DecimalValue(YearToken))
        /\ (AllDigits(YearToken) /\ DecimalValue(YearToken) >= 100) =>
              Val(pout).year = Some(DecimalValue(YearToken))
        /\ NoDigit(YearToken) => Val(pout).year = None

\* C10 as claimed: for every non-empty year/make cell, a single-token one
\* included, the year is parsed from the first token and the make is the
\* remaining tokens joined by single spaces.
C10_SplitEveryCell ==
    (pdone /\ IsSome(pout) /\ CellText # <<>>) =>
        /\ Val(pout).year = YearOf(YearToken)
        /\ Val(pout).make = Squeeze(AfterYearToken)

\* C10, amended: for a year/make cell of two or more tokens the year is
\* parsed from the first token and the make is the remaining tokens joined
\* by single spaces; for a cell of one token (or none) the year is absent
\* and the make is empty.
C10_YearMakeSplit ==
    (pdone /\ IsSome(pout)) =>
        IF AfterYearToken # <<>>
        THEN /\ Val(pout).year = YearOf(YearToken)
             /\ Val(pout).make = Squeeze(AfterYearToken)
        ELSE /\ Val(pout).year = None
             /\ Val(pout).make = <<>>

\* a cell of three tokens: the make keeps two of them, one space between
C10_Witness ==
    /\ pdone
    /\ IsSome(pout)
    /\ Val(pout).make = <<"a", " ", "a">>
    /\ IsSome(Val(pout).year)

\* ------------------------------------------------------------------------
\* Properties of the extracted records
\* ------------------------------------------------------------------------

\* a tr the parser keeps: 8 cells or more and a stock-number cell that is
\* not empty once trimmed
UsableRow(cells) == Len(cells) >= 8 /\ Trim(cells[2]) # <<>>

\* the positions of the kept rows among the tr elements (the header is 1)
UsableIndexes == {i \in 2..Len(trs) : UsableRow(trs[i])}

\* the position in trs of the n-th kept row
RECURSIVE NthUsable(_, _)
NthUsable(n, from) ==
    IF UsableRow(trs[from])
    THEN IF n = 1 THEN from ELSE NthUsable(n - 1, from + 1)
    ELSE NthUsable(n, from + 1)

\* C11: rows of fewer than 8 cells and rows whose trimmed stock-number cell
\* is empty are left out of the parser's output: the output has one record
\* per remaining row, in page order, none with an empty stock_number, and
\* leaving a row out raises no error.
C11_UnusableRowsExcluded ==
    trs # <<>> =>
        /\ Len(vehicles) = Cardinality(UsableIndexes)
        /\ \A n \in 1..Len(vehicles) :
              /\ vehicles[n].stock_number # <<>>
              /\ vehicles[n] = Val(ParseRow(trs[NthUsable(n, 2)]))
        /\ pending.kind # "thrown"

\* a short row ahead of a usable one: one record, and the loop is entered
C11_Witness ==
    /\ Len(trs) = 3
    /\ Len(trs[2]) < 8
    /\ UsableRow(trs[3])
    /\ Len(vehicles) = 1
    /\ pc = "upsert"

\* the record the example row is said to parse to
ExampleRecord ==
    [stock_number |-> <<"M", "3", "7", "3", "8", "5">>,
     year         |-> Some(2024),
     make         |-> <<"C", "h", "e", "v", "r", "o", "l", "e", "t">>,
     model        |-> <<"S", "i", "l", "v", "e", "r", "a", "d", "o", " ", "M", "D">>,
     trim         |-> <<"W", "o", "r", "k", " ", "T", "r", "u", "c", "k">>,
     vin          |-> Some(<<"H", "T", "K", "J", "P", "V", "M", "4", "R", "H",
                              "1", "7", "8", "2", "3", "2">>),
     status       |-> "available"]

\* C12: a row of 8 cells or more is read by fixed position: stock_number
\* from cell 2, year and make from cell 5, model from cell 6, trim from
\* cell 7, vin from cell 8 (absent when blank), status always "available";
\* the example row parses to the example record.
C12_FieldsByPosition ==
    (pdone /\ Len(pin) >= 8) =>
        /\ IsSome(pout)
        /\ Val(pout).stock_number = Trim(pin[2])
        /\ Val(pout).year = ParseYearMake(Trim(pin[5])).year
        /\ Val(pout).make = ParseYearMake(Trim(pin[5])).make
        /\ Val(pout).model = Trim(pin[6])
        /\ Val(pout).trim = Trim(pin[7])
        /\ Val(pout).vin = (IF Trim(pin[8]) = <<>> THEN None ELSE Some(Trim(pin[8])))
        /\ Val(pout).status = "available"
        /\ pin = ExampleRow => Val(pout) = ExampleRecord

\* the example row has been parsed
C12_Witness ==
    /\ pdone
    /\ pin = ExampleRow
    /\ IsSome(pout)
    /\ Val(pout).year = Some(2024)

\* ------------------------------------------------------------------------
\* Properties of GET /api/inventory/search
\* ------------------------------------------------------------------------

\* the search terms of q: its white-space-delimited tokens, lower-cased
TermsOfQuery(q) == SelectSeq(SplitWS(ToLower(q)), LAMBDA t : t # <<>>)

\* make, model, trim or the year as text contains the term, whatever the case
RowContains(row, term) ==
    \/ Includes(ToLower(row.make), term)
    \/ Includes(ToLower(row.model), term)
    \/ Includes(ToLower(row.trim), term)
    \/ IsSome(row.year) /\ Includes(IntToText(Val(row.year)), term)

\* C13: with the table in place, a q shorter than 2 characters (or no q) is
\* answered 400, and every q of 2 characters or more is answered with a
\* success response whose vehicles each contain every search term of q in
\* make, model, trim or year-as-text, case-insensitively.
C13_SearchContract ==
    (searchResp.status # 0 /\ tableExists) =>
        /\ (searchQ = None \/ Len(Val(searchQ)) < 2) => searchResp.status = 400
        /\ (searchQ # None /\ Len(Val(searchQ)) >= 2) =>
              /\ searchResp.status = 200
              /\ searchResp.body.success = TRUE
              /\ \A v \in searchResp.body.vehicles :
                    \A i \in 1..Len(TermsOfQuery(Val(searchQ))) :
                        RowContains(v, TermsOfQuery(Val(searchQ))[i])

\* ------------------------------------------------------------------------
\* Properties of POST /agent/reply: validation, errors, configuration
\* ------------------------------------------------------------------------

\* the request carries no messages: the key is missing or null, or the value
\* is empty
MessagesEmptyOrAbsent ==
    \/ reqMessages.t \in {"undefined", "null"}
    \/ reqMessages.v = <<>>

\* C14: an authenticated request whose messages are empty or absent is
\* answered with a 4xx status and an empty suggestions array, and no call
\* of the text-generation capability is made for it.
C14_NoMessagesRejected ==
    (AuthPasses(reqAuth, internalToken) /\ MessagesEmptyOrAbsent) =>
        /\ upstreamCalls = 0
        /\ rpc = "done" =>
              /\ replyResp.status \in 400..499
              /\ replyResp.body.suggestions = <<>>

\* the category of an upstream error, read off its message; a message that
\* fits several categories is taken by the first of invalid-key,
\* quota-exceeded, rate-limited
ErrorCategory(message) ==
    IF \E i \in 1..Len(message) : message[i] = "API key" THEN "invalid-key"
    ELSE IF \E i \in 1..Len(message) : message[i] = "quota" THEN "quota-exceeded"
    ELSE IF \E i \in 1..Len(message) : message[i] = "rate_limit" THEN "rate-limited"
    ELSE "generic"

\* the completion call was made and rejected
UpstreamFailed == upstreamCalls > 0 /\ caught # None /\ rpc = "done"

\* C15: an error of the completion call is answered by its category: 429
\* when it is rate-limited, 500 when it is quota-exceeded, invalid-key or
\* generic, each with the message of its category and no suggestion.
C15_UpstreamErrorClassified ==
    UpstreamFailed =>
        LET category == ErrorCategory(Val(caught))
        IN  /\ replyResp.status = (IF category = "rate-limited" THEN 429 ELSE 500)
            /\ replyResp.body.suggestions = <<>>
            /\ replyResp.body.error =
                  (CASE category = "invalid-key" -> <<"Invalid OpenAI API key">>
                     [] category = "quota-exceeded" ->
                           <<"OpenAI quota exceeded - check your billing">>
                     [] category = "rate-limited" ->
                           <<"Rate limited by OpenAI - try again in a moment">>
                     [] category = "generic" ->
                           (IF Val(caught) = <<>>
                            THEN <<"Unknown error calling OpenAI">>
                            ELSE Val(caught)))

\* a rate-limit rejection has been answered
C15_Witness ==
    /\ UpstreamFailed
    /\ ErrorCategory(Val(caught)) = "rate-limited"
    /\ replyResp.status = 429

\* C16: with the site credentials missing the job throws its credentials
\* error, and the trigger endpoint answers 500 with its own, before the
\* browser is launched or a page loaded; with the API key missing a reply
\* request that passes authentication and carries messages is answered 500
\* with the key-not-configured error, and no upstream call is ever made.
C16_ConfigFailsFast ==
    /\ browser = "none"
    /\ pc \in {"idle", "start", "exit", "responded"}
    /\ outcome.kind # "none" => outcome = Thrown(ErrCredentials)
    /\ (caller = "cli" /\ pc = "responded") => exitCode = 1
    /\ (caller = "http" /\ pc = "responded") =>
          /\ syncResp.status = 500
          /\ syncResp.body = [success |-> FALSE, error |-> ErrCredentialsHttp]
          /\ outcome.kind = "none"
    /\ upstreamCalls = 0
    /\ (rpc = "done" /\ AuthPasses(reqAuth, internalToken) /\ ~MessagesEmptyOrAbsent) =>
          /\ replyResp.status = 500
          /\ replyResp.body.error = <<"OpenAI API key not configured">>
          /\ replyResp.body.suggestions = <<>>

\* the direct run has failed on the credentials and a reply request on the key
C16_Witness ==
    /\ caller = "cli"
    /\ outcome = Thrown(ErrCredentials)
    /\ exitCode = 1
    /\ rpc = "done"
    /\ reqMessages.t = "array"
    /\ replyResp = NoApiKeyResponse

\* ------------------------------------------------------------------------
\* Properties of the stored rows
\* ------------------------------------------------------------------------

\* the upserts of this run for stock number k that the store accepted
StoredUpserts(k) ==
    {i \in 1..Len(outcomes) : vehicles[i].stock_number = k /\ outcomes[i] # "error"}

\* C17: a row that was in the store before the run and whose stock number
\* the run upserts is overwritten in year, make, model, trim, vin and status
\* by the record upserted last, no field merged: the upserts are reported
\* as updates, a sold row becomes available, and a stored vin becomes null
\* when the scraped vin is empty.
C17_ConflictOverwritesAll ==
    \A k \in DOMAIN store0 :
        StoredUpserts(k) # {} =>
            /\ \A i \in StoredUpserts(k) : outcomes[i] = "updated"
            /\ RowMatches(store[k], vehicles[LastStoredIndex(k)])
            /\ store[k].status = "available"
            /\ vehicles[LastStoredIndex(k)].vin = None => store[k].vin = None
            /\ store[k].created_at = store0[k].created_at

\* a sold row with a vin has been scraped again, without vin
C17_Witness ==
    /\ StockA \in DOMAIN store0
    /\ store0[StockA].status = "sold"
    /\ store0[StockA].vin # None
    /\ StoredUpserts(StockA) # {}
    /\ store[StockA].status = "available"
    /\ store[StockA].vin = None
    /\ store[StockA].year # store0[StockA].year

\* run r is about to upsert a record of stock number k
Upserting(r, k) ==
    /\ runs[r].st = "running"
    /\ runs[r].idx <= Len(runs[r].vehicles)
    /\ runs[r].vehicles[runs[r].idx].stock_number = k

\* C18: no step of a sync run or of an endpoint deletes a row or the table:
\* every stock number of the table stays in it, and a row changes only in
\* the step that upserts its stock number, so a row whose stock number is
\* absent from a scrape is kept as it is.
C18_NoRowDeleted ==
    [][/\ tableExists => tableExists'
       /\ \A k \in DOMAIN inventory :
             /\ k \in DOMAIN inventory'
             /\ inventory'[k] # inventory[k] =>
                   \E r \in RunIds : Upserting(r, k) /\ runs'[r].idx # runs[r].idx]_vars

\* two runs that scraped other stock numbers and the test data have been
\* written, and the row the table started with is as it was
C18_Witness ==
    /\ \A r \in RunIds : runs[r].st = "done"
    /\ testResp = 200
    /\ StockA \in DOMAIN inventory0
    /\ inventory[StockA] = inventory0[StockA]
    /\ Cardinality(DOMAIN inventory) = 1 + Len(sampleVehicles)
    /\ \E r \in RunIds : "inserted" \in {runs[r].outcomes[i] : i \in 1..Len(runs[r].outcomes)}

\* ------------------------------------------------------------------------
\* Properties of concurrent sync runs
\* ------------------------------------------------------------------------

\* the upserts for stock number k, over all runs, that the store accepted
AcceptedWrites(k) ==
    {w \in RunIds \X (1..2) :
        /\ w[2] <= Len(runs[w[1]].outcomes)
        /\ runs[w[1]].vehicles[w[2]].stock_number = k
        /\ runs[w[1]].outcomes[w[2]] # "error"}

\* the scraped fields of row are those of one accepted write
FromOneWrite(row) ==
    \E w \in AcceptedWrites(row.stock_number) :
        RowMatches(row, runs[w[1]].vehicles[w[2]])

\* C19: with two runs upserting at once, each statement on its own, a
\* stock number they write has one row whose fields all come from a single
\* accepted write; of the accepted writes of a stock number that was new
\* exactly one is reported as an insert (none when it was in the table);
\* and every row a search returns meanwhile comes from a single write.
C19_UpsertsAtomic ==
    /\ \A k \in DOMAIN inventory :
          AcceptedWrites(k) # {} => FromOneWrite(inventory[k])
    /\ \A k \in {StockA, ExampleRecord.stock_number} :
          /\ AcceptedWrites(k) # {} => k \in DOMAIN inventory
          /\ Cardinality({w \in AcceptedWrites(k) :
                              runs[w[1]].outcomes[w[2]] = "inserted"})
                = (IF AcceptedWrites(k) # {} /\ k \notin DOMAIN inventory0 THEN 1 ELSE 0)
    /\ searchResp.status = 200 =>
          \A v \in searchResp.body.vehicles : FromOneWrite(v)

\* the statements of the two runs interleaved: each run inserted one stock
\* number and updated the one the other had inserted, and a search answered
C19_Witness ==
    /\ DOMAIN inventory0 = {}
    /\ runs["first"].outcomes = <<"inserted", "updated">>
    /\ runs["second"].outcomes = <<"updated", "inserted">>
    /\ runs["first"].vehicles[1].stock_number = runs["second"].vehicles[1].stock_number
    /\ runs["first"].vehicles[1] # runs["second"].vehicles[1]
    /\ searchResp.status = 200
    /\ searchResp.body.count > 0

\* ------------------------------------------------------------------------
\* Properties of the login
\* ------------------------------------------------------------------------

\* C20: the login submission either produces a navigation, by Enter or by
\* the click of a submit control, and the job goes on to the dashboard, or
\* the job fails with the error 'Could not submit login form'.
C20_SubmitFailsAsNotSubmittable ==
    [][pc = "submit" =>
          \/ pc' = "dashboard" /\ pending' = pending
          \/ pc' = "finally" /\ pending' = Thrown(ErrSubmit)]_vars

\* ------------------------------------------------------------------------
\* C21: login field lookup
\* ------------------------------------------------------------------------

\* either input has no match among its listed selectors
FieldMissing(inputs) ==
    \/ FirstFound(inputs, UsernameSelectors, 1) = 0
    \/ FirstFound(inputs, PasswordSelectors, 1) = 0

\* C21: when the username or the password input cannot be located on the
\* login document, the job fails with 'Could not find login fields on page'
C21_MissingFieldFailsAsNotFound ==
    (pc \in {"exit", "responded"} /\ loginInputs # <<>> /\ FieldMissing(loginInputs))
        => outcome = Thrown(ErrLoginFields)

\* ------------------------------------------------------------------------
\* C22: transcript sanitization ahead of the prompt
\* ------------------------------------------------------------------------

\* C22: the prompt sent upstream embeds at most 60 turns, each with its text
\* trimmed and none with an empty text
C22_PromptTurnsSanitized ==
    /\ Len(sentPrompt) <= 60
    /\ \A i \in 1..Len(sentPrompt) :
          /\ sentPrompt[i][2] = Trim(sentPrompt[i][2])
          /\ sentPrompt[i][2] # <<>>

\* ------------------------------------------------------------------------
\* C23: the completion that is not JSON
\* ------------------------------------------------------------------------

\* a completion JSON.parse rejects and that holds a line with text on it
NonJsonWithLine(raw) ==
    /\ raw.json = None
    /\ \E i \in 1..Len(raw.text) : raw.text[i] # "\n" /\ raw.text[i] # ""

\* the response answers the completion raw with the 'no valid reply' body
AnsweredAsInvalid(raw) ==
    /\ rpc = "done"
    /\ "debug" \in DOMAIN replyResp.body
    /\ replyResp.body.debug.rawResponse = raw.text

\* C23: a completion that is not JSON and holds a non-empty line is answered
\* with at least one suggestion
C23_NonJsonYieldsSuggestion ==
    \A k \in CompletionKinds :
        (NonJsonWithLine(Completion(k)) /\ AnsweredAsInvalid(Completion(k)))
            => replyResp.body.suggestions # <<>>

\* ------------------------------------------------------------------------
\* C24: density threshold and first match
\* ------------------------------------------------------------------------

\* a frame the scan may take: not of the sign-in host, with a table of more
\* than 50 cells
MeetsThreshold(frame) ==
    /\ ~Includes(frame.url, SigninHost)
    /\ frame.probe = "table"
    /\ frame.cells > 50

\* C24: the frame taken holds a table of more than 50 cells; it is the first
\* frame of its attempt that does, the scan reached the frames before it in
\* order and none after it, and no attempt follows the one that took it
C24_FirstDenseFrameAccepted ==
    /\ inventoryFrame # None =>
          (Val(inventoryFrame).probe = "table" /\ Val(inventoryFrame).cells > 50)
    /\ \A k \in 1..Len(scanLog) : scanLog[k].frame = k /\ k <= Len(frames)
    /\ (pc = "poll" /\ inventoryFrame # None) =>
          LET j == Len(scanLog)
          IN  /\ j >= 1
              /\ scanLog[j].result = "accepted"
              /\ frames[j] = Val(inventoryFrame)
              /\ MeetsThreshold(frames[j])
              /\ \A i \in 1..(j - 1) : ~MeetsThreshold(frames[i])

\* a table of exactly 50 cells passed over and the frame after it taken
C24_Witness ==
    /\ pc = "poll"
    /\ Len(frames) = 2
    /\ frames[1] = [url |-> UrlApp, probe |-> "table", cells |-> 50]
    /\ frames[2] = [url |-> UrlApp, probe |-> "table", cells |-> 51]
    /\ inventoryFrame = Some(frames[2])
    /\ Len(scanLog) = 2

\* ------------------------------------------------------------------------
\* C25: frames of the sign-in host
\* ------------------------------------------------------------------------

OfSigninHost(frame) == Includes(frame.url, SigninHost)

\* the completion of the job once the try block is left
Completion0 == IF pc = "finally" THEN pending ELSE outcome

\* C25: a frame of the sign-in host is never probed and never taken; a run
\* whose attempts met no other frame with a table above the threshold fails
\* with the discovery error after maxAttempts attempts
C25_SigninFrameNeverSelected ==
    /\ inventoryFrame # None => ~OfSigninHost(Val(inventoryFrame))
    /\ \A k \in 1..Len(scanLog) :
          OfSigninHost(frames[scanLog[k].frame]) => scanLog[k].result = "skipped"
    /\ (attempt >= 1 /\ pc \in {"finally", "exit", "responded"} /\ qualAt = 0) =>
          (attempt = maxAttempts /\ Completion0 = Thrown(ErrIframe))

\* the last attempt met a sign-in frame with a table above the threshold and
\* nothing else that qualifies, as did every attempt before it
C25_Witness ==
    /\ pc = "poll"
    /\ attempt = maxAttempts
    /\ qualAt = 0
    /\ inventoryFrame = None
    /\ \E k \in 1..Len(scanLog) :
          /\ OfSigninHost(frames[k])
          /\ frames[k].probe = "table"
          /\ frames[k].cells > 50
          /\ scanLog[k].result = "skipped"

\* ------------------------------------------------------------------------
\* C27: errors while a frame is inspected
\* ------------------------------------------------------------------------

\* C27: after a frame whose inspection raised an error the scan goes on with
\* the next frame, a qualifying frame of the attempt is taken in that attempt
\* whatever errors precede it, and no error is pending while the loop runs
C27_FrameErrorConfined ==
    /\ \A k \in 1..Len(scanLog) :
          (scanLog[k].result = "error" /\ k < Len(frames)) => Len(scanLog) > k
    /\ (pc = "poll" /\ frames # <<>> /\ \E i \in 1..Len(frames) : MeetsThreshold(frames[i])) =>
          (inventoryFrame # None /\ MeetsThreshold(Val(inventoryFrame)))
    /\ pc = "poll" => pending = NoCompletion

\* the first frame raised an error and the second one was taken
C27_Witness ==
    /\ pc = "poll"
    /\ Len(frames) >= 2
    /\ frames[1].probe = "error"
    /\ Len(scanLog) = 2
    /\ scanLog[1].result = "error"
    /\ scanLog[2].result = "accepted"
    /\ inventoryFrame = Some(frames[2])

\* ------------------------------------------------------------------------
\* C26: the counters of a successful run
\* ------------------------------------------------------------------------

\* a completion that returns success true reports every parsed record once
CountersPartition(c) ==
    (c.kind = "returned" /\ c.value.success) =>
        /\ c.value.vehiclesFound >= 1
        /\ c.value.vehiclesFound = Len(vehicles)
        /\ c.value.inserted + c.value.updated + c.value.errors = c.value.vehiclesFound
        /\ Len(outcomes) = Len(vehicles)
        /\ c.value.inserted = CountOf(outcomes, "inserted")
        /\ c.value.updated = CountOf(outcomes, "updated")
        /\ c.value.errors = CountOf(outcomes, "error")

\* C26: when the job returns success true, vehiclesFound is at least 1 and
\* inserted + updated + errors equals vehiclesFound, each parsed record
\* being counted by the counter of what its upsert did
C26_CountersPartitionRecords ==
    /\ CountersPartition(pending)
    /\ CountersPartition(outcome)

\* a run of two records, one stored and one rejected, has returned
C26_Witness ==
    /\ outcome.kind = "returned"
    /\ outcome.value.success
    /\ outcome.value.vehiclesFound = 2
    /\ outcome.value.errors = 1
    /\ outcome.value.inserted + outcome.value.updated = 1
====
